---- MODULE Spec2Model ----
(***************************************************************************)
(* A model of youtube_description_editor_gui.py: the per-item              *)
(* backup / update / rollback loop of update_selected_videos, the backup   *)
(* store (save_backup, restore_from_backup), the literal find/replace      *)
(* (check_video_needs_update, process_description) and the link prober     *)
(* with its process-wide cache (check_url_status, _url_cache).             *)
(*                                                                         *)
(* Text is a sequence of one-character strings.  The remote service, the   *)
(* backup file and the network are the environment: every call to them     *)
(* returns or raises as the environment chooses, and every call is         *)
(* appended to a call log (calls, probes, returns) that the properties     *)
(* read.                                                                   *)
(***************************************************************************)
EXTENDS Integers, Sequences, FiniteSets, TLC

\* ------------------------------------------------------------------ bounds

\* Longest description held by the remote when the model starts.
MaxLen == 2
\* Number of check_url_status calls made in one process run, all workers together.
MaxCalls == 3
\* Longest listing the batch loop is run over.
MaxVideos == 120
\* Number of direct calls of the backup functions in one run.
MaxStoreOps == 3
\* Longest text, in pieces, that extract_urls is applied to.
MaxPieces == 4

\* ------------------------------------------------------------- the universe

Alphabet == {"a", "b"}
\* The uploads playlist in enumeration order (YouTubeAPI.get_all_videos).
Channel == <<"v1", "v2">>
Ids == {Channel[k] : k \in 1..Len(Channel)}
Title(id) == IF id = "v1" THEN "Title one" ELSE "Title two"

Range(s) == {s[k] : k \in 1..Len(s)}
Last(s) == s[Len(s)]

RECURSIVE Strs(_)
Strs(n) ==
    IF n = 0 THEN {<<>>}
    ELSE LET shorter == Strs(n - 1)
         IN  shorter \cup {Append(s, c) : s \in {x \in shorter : Len(x) = n - 1}, c \in Alphabet}

\* Not a description: the value of a log field that carries no text.
NoText == <<"#">>

\* The Find and Replace fields the operator may have typed.
Patterns == {<<>>, <<"a">>, <<"a", "b">>}
Replacements == {<<>>, <<"a">>, <<"b">>}
\* A missing record (Python None, or a key absent from a dict).
None == [none |-> TRUE]

\* ------------------------------------------------------- pattern functions

\* Python's `p in s` for strings.
Contains(s, p) ==
    \E k \in 1..(Len(s) - Len(p) + 1) : SubSeq(s, k, k + Len(p) - 1) = p

\* Python's s.replace(p, r) for a non-empty p: left to right, non-overlapping.
RECURSIVE StrReplace(_, _, _)
StrReplace(s, p, r) ==
    IF Len(s) < Len(p) THEN s
    ELSE IF SubSeq(s, 1, Len(p)) = p
         THEN r \o StrReplace(SubSeq(s, Len(p) + 1, Len(s)), p, r)
         ELSE <<Head(s)>> \o StrReplace(Tail(s), p, r)

\* `if find_pattern and find_pattern in description`
PatternFound(description, find_pattern) ==
    find_pattern # <<>> /\ Contains(description, find_pattern)

check_video_needs_update_unguarded(description, find_pattern) ==
    LET issues == IF Contains(description, find_pattern)
                  THEN <<"Contains pattern to replace">> ELSE <<>>
    IN  [needs_update |-> Len(issues) > 0, issues |-> issues]

check_video_needs_update(description, find_pattern) ==
    LET issues == IF PatternFound(description, find_pattern)
                  THEN <<"Contains pattern to replace">> ELSE <<>>
    IN  [needs_update |-> Len(issues) > 0, issues |-> issues]

WasModifiedByMarker(description, original, modifications) ==
    Len(modifications) > 0

\* The second value process_description returns: `description != original`.
WasModified(description, original, modifications) ==
    description # original

process_description(description, find_pattern, replace_with) ==
    LET found == PatternFound(description, find_pattern)
        new   == IF found THEN StrReplace(description, find_pattern, replace_with)
                 ELSE description
        modifications == IF found THEN <<"Replaced pattern">> ELSE <<>>
    IN  [new_description |-> new,
         was_modified    |-> WasModified(new, description, modifications),
         modifications   |-> modifications]

\* ------------------------------------------------------------------ state

VARIABLES
    remote,                 \* the service: video id -> its live description
    backups,                \* description_backups.json: video id -> record, or None
    find_pattern,           \* self.find_pattern
    replace_with,           \* self.replace_with
    videos,                 \* self.videos
    videos_needing_update,  \* self.videos_needing_update
    upc,                    \* where update_selected_videos is
    selected,               \* its local `selected`
    i,                      \* 1-based position in `selected` (enumerate's i + 1)
    video_details,          \* its local `video_details`
    success_count,
    error_count,
    errors,
    calls,                  \* log of the calls made to the service and the backup file
    url_cache,              \* _url_cache: url -> (status, error), or None
    ppc,                    \* per worker: where its check_url_status call is
    purl,                   \* per worker: the url argument
    puse,                   \* per worker: the use_cache argument
    presult,                \* per worker: the local `result`
    pcalls,                 \* per worker: calls made so far
    probes,                 \* log of the network requests issued
    returns,                \* log of the values check_url_status returned
    fn_in,                  \* the arguments of a call to the pattern functions
    fn_out,                 \* what the pattern functions returned for them
    b_videos,               \* the listing a scan's batch loop walks
    b_pc,                   \* where the batch loop stands
    b_start,                \* batch_start of the next iteration
    b_requests,             \* the id lists of the detail requests issued so far
    s_pc,                   \* where a direct call of restore_from_backup stands
    s_id,                   \* the video_id argument of the direct call
    s_ret,                  \* how the last direct call of a backup function ended
    tkind,                  \* what each background thread runs
    tpc,                    \* where each background thread stands
    tlist,                  \* the local list get_all_videos builds, per thread
    tstart,                 \* batch_start, per thread
    ttotal,                 \* total, per thread
    tfound,                 \* whether all_videos_with_links holds anything, per thread
    scan_log,               \* the remote's answers to the threads' requests
    link_check_result,      \* self._link_check_result
    m_pc,                   \* where a single update request stands
    m_video,                \* the remote video resource the request is about
    m_details,              \* the video_details snapshot fetched for the request
    m_body,                 \* the snippet the last videos().update request carried
    u_text,                 \* the text extract_urls is called on
    u_out,                  \* what extract_urls returned for it
    l_urls,                 \* urls, the links extract_urls found in one description
    l_all,                  \* all_links of the video being checked
    l_broken,               \* broken_links of the video being checked
    l_counts,               \* broken_count and cached_links
    table,                  \* the rows the candidate table shows
    loop_pc,                \* where the main loop of run() stands
    poll_result,            \* its local `result`
    shown                   \* the results the Links Report popup has shown

updateVars == <<remote, backups, find_pattern, replace_with, videos,
                videos_needing_update, upc, selected, i, video_details,
                success_count, error_count, errors, calls>>
probeVars == <<url_cache, ppc, purl, puse, presult, pcalls, probes, returns>>
fnVars == <<fn_in, fn_out>>
batchVars == <<b_videos, b_pc, b_start, b_requests>>
storeVars == <<s_pc, s_id, s_ret>>
scanVars == <<tkind, tpc, tlist, tstart, ttotal, tfound, scan_log, link_check_result>>
metaVars == <<m_pc, m_video, m_details, m_body>>
urlVars == <<u_text, u_out>>
linkVars == <<l_urls, l_all, l_broken, l_counts>>
guiVars == <<table, loop_pc, poll_result, shown>>
otherVars == <<fnVars, batchVars, storeVars, scanVars, metaVars, urlVars, linkVars, guiVars>>
vars == <<updateVars, probeVars, otherVars>>
notFnVars == <<updateVars, probeVars, batchVars, storeVars, scanVars, metaVars, urlVars, linkVars, guiVars>>
notBatchVars == <<updateVars, probeVars, fnVars, storeVars, scanVars, metaVars, urlVars, linkVars, guiVars>>

\* ------------------------------------------------------- service and file

HttpError(msg) == [type |-> "HttpError", msg |-> msg]
OtherError(msg) == [type |-> "Exception", msg |-> msg]

\* What the environment can raise from each call.  A save_backup that raises
\* does so in open(), before the file is touched.
FetchRaises == {HttpError("HttpError 500 videos.list")}
BackupRaises == {OtherError("OSError description_backups.json")}
UpdateRaises == {HttpError("HttpError 403 videos.update"), OtherError("timed out")}
RestoreFetchRaises == {HttpError("HttpError 500 videos.list")}
RestoreUpdateRaises == {HttpError("HttpError 503 videos.update")}

\* One entry of the call log.
Ev(op, by, item, id, desc, res, msg) ==
    [op |-> op, by |-> by, item |-> item, id |-> id, desc |-> desc,
     res |-> res, msg |-> msg]

Log(e) == calls' = Append(calls, e)

\* YouTubeAPI.get_video_details: the first item of the response.
get_video_details(id) == [id |-> id, description |-> remote[id]]

\* YouTubeAPI.update_video_description, when the request is carried out.
update_video_description(r, id, new_description) ==
    [r EXCEPT ![id] = new_description]

save_backup_nothing(b, video_id, title, old_description) == b

save_backup_keeping_earlier(b, video_id, title, old_description) ==
    IF b[video_id] # None THEN b
    ELSE [b EXCEPT ![video_id] = [title |-> title, description |-> old_description]]

save_backup_fresh(b, video_id, title, old_description) ==
    [id \in DOMAIN b |->
        IF id = video_id THEN [title |-> title, description |-> old_description]
        ELSE None]

\* save_backup: load the mapping, set the entry, write the mapping back.
save_backup(b, video_id, title, old_description) ==
    [b EXCEPT ![video_id] = [title |-> title, description |-> old_description]]

\* ------------------------------------------------- update_selected_videos

\* The texts appended to `errors`, each f-string as the sequence of its parts.
CouldNotFetch(video) == <<video.title, ": Could not fetch details">>
Restored(video) == <<video.title, ": Update failed, restored from backup">>
RestoreFailed(video, restore_msg) ==
    <<video.title, ": Update failed, restore also failed: ", restore_msg>>
Unhandled(video, e) == <<video.title, ": ", e.msg>>

video == selected[i]
current_desc == video_details.description
new_desc == process_description(current_desc, find_pattern, replace_with).new_description

\* The end of one pass of `for i, video in enumerate(selected)`.
NextItem ==
    /\ i' = i + 1
    /\ upc' = IF i + 1 > Len(selected) THEN "finish" ELSE "fetch"

RecordErrorUncounted(entry) ==
    /\ errors' = Append(errors, entry)
    /\ error_count' = error_count

RecordError(entry) ==
    /\ errors' = Append(errors, entry)
    /\ error_count' = error_count + 1

InnerCatchesNothing(e) == FALSE

\* `except HttpError as e` around the update call.
InnerCatches(e) == e.type = "HttpError"

OuterCatchesHttpOnly(e) == e.type = "HttpError"

\* `except Exception as e` around the body of the loop.
OuterCatches(e) == e.type \in {"HttpError", "Exception"}

\* An exception that reaches the loop body's try statement.
Raise(e) ==
    IF OuterCatches(e)
    THEN /\ RecordError(Unhandled(video, e))
         /\ NextItem
    ELSE /\ upc' = "raised"
         /\ UNCHANGED <<errors, error_count, i>>

\* selected = [...]; the two early returns; the counters.
UpdateBegin ==
    /\ upc = "idle"
    /\ selected' = SelectSeq(videos_needing_update, LAMBDA v : v.selected)
    /\ \E confirm \in {"Yes", "No"} :
          upc' = IF selected' = <<>> \/ confirm # "Yes" THEN "returned" ELSE "fetch"
    /\ i' = 1
    /\ success_count' = 0
    /\ error_count' = 0
    /\ errors' = <<>>
    /\ UNCHANGED <<remote, backups, find_pattern, replace_with, videos,
                   videos_needing_update, video_details, calls>>
    /\ UNCHANGED <<probeVars, otherVars>>

backups_after_vanished_saved(b, v) == save_backup(b, v.id, v.title, <<>>)

\* The backup file after `if not video_details: ...; continue`: not written.
backups_after_vanished(b, v) == b

\* video_details = self.youtube_api.get_video_details(video["id"])
Fetch ==
    /\ upc = "fetch"
    /\ \/ /\ video_details' = get_video_details(video.id)
          /\ Log(Ev("get_video_details", "update_selected_videos", i, video.id,
                    remote[video.id], "ok", ""))
          /\ upc' = "backup"
          /\ UNCHANGED <<i, errors, error_count, backups>>
       \/ /\ video_details' = None
          /\ Log(Ev("get_video_details", "update_selected_videos", i, video.id,
                    NoText, "none", ""))
          /\ backups' = backups_after_vanished(backups, video)
          /\ RecordError(CouldNotFetch(video))
          /\ NextItem
       \/ \E e \in FetchRaises :
             /\ Log(Ev("get_video_details", "update_selected_videos", i, video.id,
                       NoText, e.type, e.msg))
             /\ Raise(e)
             /\ UNCHANGED <<video_details, backups>>
    /\ UNCHANGED <<remote, find_pattern, replace_with, videos,
                   videos_needing_update, selected, success_count>>
    /\ UNCHANGED <<probeVars, otherVars>>

\* save_backup(...), process_description(...), `if was_modified`.
Backup ==
    /\ upc = "backup"
    /\ \/ /\ backups' = save_backup(backups, video.id, video.title, current_desc)
          /\ Log(Ev("save_backup", "update_selected_videos", i, video.id,
                    current_desc, "ok", ""))
          /\ IF process_description(current_desc, find_pattern, replace_with).was_modified
             THEN /\ upc' = "update"
                  /\ UNCHANGED <<i, success_count>>
             ELSE /\ success_count' = success_count + 1
                  /\ NextItem
          /\ UNCHANGED <<errors, error_count>>
       \/ \E e \in BackupRaises :
             /\ Log(Ev("save_backup", "update_selected_videos", i, video.id,
                       current_desc, e.type, e.msg))
             /\ Raise(e)
             /\ UNCHANGED <<backups, success_count>>
    /\ UNCHANGED <<remote, find_pattern, replace_with, videos,
                   videos_needing_update, selected, video_details>>
    /\ UNCHANGED <<probeVars, otherVars>>

\* self.youtube_api.update_video_description(video["id"], video_details, new_desc)
Update ==
    /\ upc = "update"
    /\ \/ /\ remote' = update_video_description(remote, video.id, new_desc)
          /\ Log(Ev("update_video_description", "update_selected_videos", i,
                    video.id, new_desc, "ok", ""))
          /\ success_count' = success_count + 1
          /\ NextItem
          /\ UNCHANGED <<errors, error_count>>
       \/ \E e \in UpdateRaises, applied \in BOOLEAN :
             \* the request failed; the service may or may not have carried it out
             /\ remote' = IF applied
                          THEN update_video_description(remote, video.id, new_desc)
                          ELSE remote
             /\ Log(Ev("update_video_description", "update_selected_videos", i,
                       video.id, new_desc, e.type, e.msg))
             /\ IF InnerCatches(e)
                THEN /\ upc' = "restore"
                     /\ UNCHANGED <<i, errors, error_count>>
                ELSE Raise(e)
             /\ UNCHANGED success_count
    /\ UNCHANGED <<backups, find_pattern, replace_with, videos,
                   videos_needing_update, selected, video_details>>
    /\ UNCHANGED <<probeVars, otherVars>>

\* ------------------------------------------------------ restore_from_backup

NoBackupMsg == "No backup found for this video"
NoDetailsMsg == "Could not fetch video details"
RestoredMsg == "Restored successfully"

\* `if restore_success: ... else: ...; error_count += 1`
AfterRestore(restore_success, restore_msg) ==
    /\ RecordError(IF restore_success THEN Restored(video)
                   ELSE RestoreFailed(video, restore_msg))
    /\ NextItem

HasBackupAlways(b, video_id) == TRUE

\* `video_id in backups`
HasBackup(b, video_id) == b[video_id] # None

backups_after_restore_deleting(b, video_id) == [b EXCEPT ![video_id] = None]

\* restore_from_backup only loads the file: it writes nothing back.
backups_after_restore(b, video_id) == b

backup_description_blank(b, video_id) == <<>>

\* backups[video_id]["description"], the text restore_from_backup sends.
backup_description(b, video_id) == b[video_id].description

\* restore_from_backup up to and including its get_video_details call.
Restore ==
    /\ upc = "restore"
    /\ LET begun == Append(calls, Ev("restore_from_backup", "update_selected_videos",
                                     i, video.id, NoText, "called", ""))
       IN  IF backups[video.id] = None
           THEN /\ calls' = begun
                /\ AfterRestore(FALSE, NoBackupMsg)
           ELSE \/ /\ calls' = Append(begun, Ev("get_video_details", "restore_from_backup",
                                                i, video.id, remote[video.id], "ok", ""))
                   /\ upc' = "restore_update"
                   /\ UNCHANGED <<i, errors, error_count>>
                \/ /\ calls' = Append(begun, Ev("get_video_details", "restore_from_backup",
                                                i, video.id, NoText, "none", ""))
                   /\ AfterRestore(FALSE, NoDetailsMsg)
                \/ \E e \in RestoreFetchRaises :
                      \* not inside restore_from_backup's try: it leaves the function
                      /\ calls' = Append(begun, Ev("get_video_details", "restore_from_backup",
                                                   i, video.id, NoText, e.type, e.msg))
                      /\ Raise(e)
    /\ UNCHANGED <<remote, backups, find_pattern, replace_with, videos,
                   videos_needing_update, selected, video_details, success_count>>
    /\ UNCHANGED <<probeVars, otherVars>>

\* restore_from_backup's try: the update call and the two returns.
RestoreUpdate ==
    /\ upc = "restore_update"
    /\ LET text == backup_description(backups, video.id)
       IN  \/ /\ remote' = update_video_description(remote, video.id, text)
              /\ Log(Ev("update_video_description", "restore_from_backup", i,
                        video.id, text, "ok", ""))
              /\ AfterRestore(TRUE, RestoredMsg)
           \/ \E e \in RestoreUpdateRaises, applied \in BOOLEAN :
                 /\ remote' = IF applied
                              THEN update_video_description(remote, video.id, text)
                              ELSE remote
                 /\ Log(Ev("update_video_description", "restore_from_backup", i,
                           video.id, text, e.type, e.msg))
                 /\ AfterRestore(FALSE, e.msg)
    /\ UNCHANGED <<backups, find_pattern, replace_with, videos,
                   videos_needing_update, selected, video_details, success_count>>
    /\ UNCHANGED <<probeVars, otherVars>>

\* ------------------------------------------------------------ search_videos

\* batch_size in search_videos
batch_size == 50

\* "YouTube API allows up to 50 IDs per request"
MaxIdsPerRequest == 50

Min(a, b) == IF a < b THEN a ELSE b

\* batch_end = min(batch_start + batch_size, total)
batch_end(batch_start, total) == Min(batch_start + batch_size, total)

next_batch_start_skipping(batch_start) == batch_start + batch_size + 1

\* the step of range(0, total, batch_size)
next_batch_start(batch_start) == batch_start + batch_size

Ref(id) == [id |-> id, title |-> Title(id)]
ChannelRefs == [k \in 1..Len(Channel) |-> Ref(Channel[k])]

Candidate(id, description, sel) ==
    [id |-> id, title |-> Title(id), selected |-> sel,
     details |-> [id |-> id, description |-> description]]

\* update_video_table: one row [checkbox, title] per candidate, in list order
\* (titles here are shorter than the 70 characters after which a row cuts them).
table_data(list) ==
    [k \in 1..Len(list) |-> <<IF list[k].selected THEN "[x]" ELSE "[ ]", list[k].title>>]

ScanIgnoringPresent(refs, present) ==
    SelectSeq([k \in 1..Len(refs) |-> Candidate(refs[k].id, remote[refs[k].id], FALSE)],
              LAMBDA c : check_video_needs_update(c.details.description,
                                                  find_pattern).needs_update)

\* The candidates a scan appends, given the ids the detail request returned.
Scan(refs, present) ==
    SelectSeq([k \in 1..Len(refs) |-> Candidate(refs[k].id, remote[refs[k].id], FALSE)],
              LAMBDA c : /\ c.id \in present
                         /\ check_video_needs_update(c.details.description,
                                                     find_pattern).needs_update)

\* search_videos run to its end.  The channel fits one detail request, the Find
\* and Replace fields still hold what the last Search click read from them (so
\* lines 528-529 leave find_pattern and replace_with as they are), and the
\* alphabet has no white space, so `not find_pattern.strip()` is emptiness.
search_videos ==
    IF find_pattern = <<>>
    THEN UNCHANGED <<videos, videos_needing_update, table>>
    ELSE \/ \* get_all_videos raises
            UNCHANGED <<videos, videos_needing_update, table>>
         \/ \* get_video_details_batch raises: update_video_table is not reached
            /\ videos' = ChannelRefs
            /\ videos_needing_update' = <<>>
            /\ UNCHANGED table
         \/ \E present \in SUBSET Ids :
               /\ videos' = ChannelRefs
               /\ videos_needing_update' = Scan(ChannelRefs, present)
               /\ table' = table_data(videos_needing_update')

\* The results popup, then `self.search_videos()`.
Finish ==
    /\ upc = "finish"
    /\ search_videos
    /\ upc' = "done"
    /\ UNCHANGED <<remote, backups, find_pattern, replace_with, selected, i,
                   video_details, success_count, error_count, errors, calls>>
    /\ UNCHANGED <<probeVars, fnVars, batchVars, storeVars, scanVars, metaVars,
                   urlVars, linkVars, loop_pc, poll_result, shown>>

\* --------------------------------------------------------- check_url_status

Workers == {"w1", "w2"}
\* The threads the Search and Check Links buttons start, one per click.
Threads == {"t1", "t2"}
Urls == {"u1", "u2"}

\* Python None as a status code, and as an error message.
StatusNone == 0
NoError == "<None>"

Result(status, error) == [status |-> status, error |-> error]

\* What the network can answer to the HEAD request and to the GET request.
HeadAnswers == {[kind |-> "response", code |-> 200, reason |-> "OK"],
                [kind |-> "HTTPError", code |-> 404, reason |-> "Not Found"],
                [kind |-> "HTTPError", code |-> 405, reason |-> "Method Not Allowed"],
                [kind |-> "URLError", code |-> StatusNone, reason |-> "timed out"]}
GetAnswers == {[kind |-> "response", code |-> 200, reason |-> "OK"],
               [kind |-> "HTTPError", code |-> 404, reason |-> "Not Found"],
               [kind |-> "Exception", code |-> StatusNone, reason |-> "connection reset"]}

\* The `result` each branch of the try statement assigns.
ResultOf(answer) ==
    IF answer.kind = "response" THEN Result(answer.code, NoError)
    ELSE IF answer.kind = "HTTPError" THEN Result(answer.code, answer.reason)
    ELSE Result(StatusNone, answer.reason)

Request(t, method, answer) ==
    [t |-> t, n |-> pcalls[t], url |-> purl[t], use_cache |-> puse[t],
     method |-> method, answer |-> answer]
Returned(t, url, result, from_cache) ==
    [t |-> t, n |-> pcalls[t], url |-> url, status |-> result.status,
     error |-> result.error, from_cache |-> from_cache]

\* `if use_cache and url in _url_cache`
CacheHit(cache, url, use_cache) == use_cache /\ cache[url] # None

\* Calls begun so far: those that returned and those in flight.
CallsBegun == Len(returns) + Cardinality({t \in Workers : ppc[t] # "idle"})

\* The call and its cache lookup; a hit returns at once.
Call(t, url, use_cache) ==
    /\ ppc[t] = "idle"
    /\ CallsBegun < MaxCalls
    /\ pcalls' = [pcalls EXCEPT ![t] = @ + 1]
    /\ IF CacheHit(url_cache, url, use_cache)
       THEN /\ returns' = Append(returns,
                                 [t |-> t, n |-> pcalls'[t], url |-> url,
                                  status |-> url_cache[url].status,
                                  error |-> url_cache[url].error,
                                  from_cache |-> TRUE])
            /\ UNCHANGED <<ppc, purl, puse>>
       ELSE /\ ppc' = [ppc EXCEPT ![t] = "head"]
            /\ purl' = [purl EXCEPT ![t] = url]
            /\ puse' = [puse EXCEPT ![t] = use_cache]
            /\ UNCHANGED returns
    /\ UNCHANGED <<url_cache, presult, probes>>
    /\ UNCHANGED <<updateVars, otherVars>>

RetryWithGetOnAnyHttpError(answer) == answer.kind = "HTTPError"

\* `except urllib.error.HTTPError as e: if e.code == 405`
RetryWithGet(answer) == answer.kind = "HTTPError" /\ answer.code = 405

\* The HEAD request and the except clauses that follow it.
HeadRequest(t) ==
    /\ ppc[t] = "head"
    /\ \E answer \in HeadAnswers :
          /\ probes' = Append(probes, Request(t, "HEAD", answer))
          /\ IF RetryWithGet(answer)
             THEN /\ ppc' = [ppc EXCEPT ![t] = "get"]
                  /\ UNCHANGED presult
             ELSE /\ presult' = [presult EXCEPT ![t] = ResultOf(answer)]
                  /\ ppc' = [ppc EXCEPT ![t] = "store"]
    /\ UNCHANGED <<url_cache, purl, puse, pcalls, returns>>
    /\ UNCHANGED <<updateVars, otherVars>>

\* The GET request made after a 405.
GetRequest(t) ==
    /\ ppc[t] = "get"
    /\ \E answer \in GetAnswers :
          /\ probes' = Append(probes, Request(t, "GET", answer))
          /\ presult' = [presult EXCEPT ![t] = ResultOf(answer)]
    /\ ppc' = [ppc EXCEPT ![t] = "store"]
    /\ UNCHANGED <<url_cache, purl, puse, pcalls, returns>>
    /\ UNCHANGED <<updateVars, otherVars>>

CacheWriteHealthyOnly(cache, url, result) ==
    IF result.status # StatusNone /\ result.status < 400
    THEN [cache EXCEPT ![url] = result] ELSE cache

\* `_url_cache[url] = result`
CacheWrite(cache, url, result) == [cache EXCEPT ![url] = result]

\* The cache write and the return.
CacheStore(t) ==
    /\ ppc[t] = "store"
    /\ url_cache' = CacheWrite(url_cache, purl[t], presult[t])
    /\ returns' = Append(returns, Returned(t, purl[t], presult[t], FALSE))
    /\ ppc' = [ppc EXCEPT ![t] = "idle"]
    /\ UNCHANGED <<purl, puse, presult, pcalls, probes>>
    /\ UNCHANGED <<updateVars, otherVars>>

\* ---------------------------------------------------------- specifications

\* The prober before any call: `_url_cache = {}`.
ProbeInit ==
    /\ url_cache = [u \in Urls |-> None]
    /\ ppc = [t \in Workers |-> "idle"]
    /\ purl = [t \in Workers |-> "u1"]
    /\ puse = [t \in Workers |-> TRUE]
    /\ presult = [t \in Workers |-> Result(StatusNone, NoError)]
    /\ pcalls = [t \in Workers |-> 0]
    /\ probes = <<>>
    /\ returns = <<>>

\* The record an earlier run left in the backup file.
EarlierBackup(id) == [title |-> Title(id), description |-> <<"b">>]

\* The editor when the operator clicks Update: any live descriptions, a pattern
\* and replacement (no longer than the pattern, so texts do not grow), a backup
\* file from earlier runs, and a candidate table with any boxes ticked.
UpdateInit ==
    /\ remote \in [Ids -> Strs(MaxLen)]
    /\ \E had \in {{}, {Channel[1]}} :
          backups = [id \in Ids |-> IF id \in had THEN EarlierBackup(id) ELSE None]
    /\ find_pattern \in Patterns
    /\ replace_with \in {r \in Replacements : Len(r) <= Len(find_pattern)}
    /\ videos = ChannelRefs
    /\ \E listed \in SUBSET Ids, ticked \in SUBSET Ids :
          /\ ticked \subseteq listed
          /\ videos_needing_update =
                SelectSeq([k \in 1..Len(Channel) |->
                              Candidate(Channel[k], remote[Channel[k]],
                                        Channel[k] \in ticked)],
                          LAMBDA c : c.id \in listed)
    /\ upc = "idle"
    /\ selected = <<>>
    /\ i = 1
    /\ video_details = None
    /\ success_count = 0
    /\ error_count = 0
    /\ errors = <<>>
    /\ calls = <<>>

\* The editor with nothing scanned yet, as __init__ leaves it.
UpdateQuiet ==
    /\ remote = [id \in Ids |-> <<>>]
    /\ backups = [id \in Ids |-> None]
    /\ find_pattern = <<>>
    /\ replace_with = <<>>
    /\ videos = <<>>
    /\ videos_needing_update = <<>>
    /\ upc = "idle"
    /\ selected = <<>>
    /\ i = 1
    /\ video_details = None
    /\ success_count = 0
    /\ error_count = 0
    /\ errors = <<>>
    /\ calls = <<>>

\* No call of the pattern functions on their own.
FnQuiet ==
    /\ fn_in = None
    /\ fn_out = None

\* No batch loop on its own.
BatchQuiet ==
    /\ b_videos = <<>>
    /\ b_pc = "idle"
    /\ b_start = 0
    /\ b_requests = <<>>

\* No direct call of the backup functions.
StoreQuiet ==
    /\ s_pc = "idle"
    /\ s_id = Channel[1]
    /\ s_ret = [kind |-> "none"]

\* No background thread started: the slot as __init__ leaves it.
ScanQuiet ==
    /\ tkind = [t \in Threads |-> "none"]
    /\ tpc = [t \in Threads |-> "none"]
    /\ tlist = [t \in Threads |-> <<>>]
    /\ tstart = [t \in Threads |-> 0]
    /\ ttotal = [t \in Threads |-> 0]
    /\ tfound = [t \in Threads |-> FALSE]
    /\ scan_log = <<>>
    /\ link_check_result = None

\* No update request followed on its own.
MetaQuiet ==
    /\ m_pc = "idle"
    /\ m_video = None
    /\ m_details = None
    /\ m_body = None

\* No call of extract_urls on its own.
UrlQuiet ==
    /\ u_text = <<>>
    /\ u_out = None

\* No link loop on its own.
LinkQuiet ==
    /\ l_urls = <<>>
    /\ l_all = <<>>
    /\ l_broken = <<>>
    /\ l_counts = [broken_count |-> 0, cached_links |-> 0]

\* The main loop before any event: the table shows the candidate list, the
\* loop waits in window.read, and no result has been taken or shown.
GuiQuiet ==
    /\ table = table_data(videos_needing_update)
    /\ loop_pc = "read"
    /\ poll_result = None
    /\ shown = <<>>

OtherQuiet == FnQuiet /\ BatchQuiet /\ StoreQuiet /\ ScanQuiet /\ MetaQuiet /\ UrlQuiet /\ LinkQuiet /\ GuiQuiet

Init == UpdateInit /\ ProbeInit /\ OtherQuiet

Next ==
    \/ UpdateBegin
    \/ Fetch
    \/ Backup
    \/ Update
    \/ Restore
    \/ RestoreUpdate
    \/ Finish

\* One click on Update, from any state the editor can be in.
Spec == Init /\ [][Next]_vars

ProbeSpecInit == UpdateQuiet /\ ProbeInit /\ OtherQuiet

ProbeNext ==
    \E t \in Workers :
        \/ \E url \in Urls : Call(t, url, TRUE)
        \/ HeadRequest(t)
        \/ GetRequest(t)
        \/ CacheStore(t)

\* Link-check workers calling check_url_status(url) concurrently, as
\* check_broken_links does from each worker thread the Check Links button starts.
ProbeSpec == ProbeSpecInit /\ [][ProbeNext]_vars

OthersIdle(t) == \A o \in Workers \ {t} : ppc[o] = "idle"

SeqNext ==
    \E t \in Workers :
        \/ \E url \in Urls : OthersIdle(t) /\ Call(t, url, TRUE)
        \/ HeadRequest(t)
        \/ GetRequest(t)
        \/ CacheStore(t)

\* check_url_status called with the default use_cache, one call at a time.
SeqSpec == ProbeSpecInit /\ [][SeqNext]_vars

\* ------------------------------------------- properties: the update loop

\* Items of `selected` whose pass through the loop body has ended.
Finished(k) == k \in 1..Len(selected) /\ k < i

ByLoop(k, op) ==
    {n \in DOMAIN calls : /\ calls[n].by = "update_selected_videos"
                          /\ calls[n].item = k
                          /\ calls[n].op = op}
ByRestore(k, op) ==
    {n \in DOMAIN calls : /\ calls[n].by = "restore_from_backup"
                          /\ calls[n].item = k
                          /\ calls[n].op = op}

\* The update calls of the loop for item k, and those among them that failed.
Updates(k) == ByLoop(k, "update_video_description")
FailedUpdates(k) == {n \in Updates(k) : calls[n].res # "ok"}
HttpFailedUpdates(k) == {n \in Updates(k) : calls[n].res = "HttpError"}

\* The restore's update calls for item k that succeeded.
RestoreDone(k) ==
    {n \in ByRestore(k, "update_video_description") : calls[n].res = "ok"}

\* The fetches of item k that returned details.
Fetched(k) == {n \in ByLoop(k, "get_video_details") : calls[n].res = "ok"}

\* The entries of `errors` for item k.
EntriesOf(k) == {n \in DOMAIN errors : errors[n][1] = selected[k].title}

\* C1: every update call of the loop comes after a fetch of that item that
\* returned details and a completed save_backup of that item storing exactly the
\* fetched description, and while the update call is pending the backup file
\* holds that description for the item.
C1_BackupBeforeUpdate ==
    /\ \A k \in 1..Len(selected) : \A u \in Updates(k) :
          \E g \in Fetched(k), b \in ByLoop(k, "save_backup") :
             /\ g < b
             /\ b < u
             /\ calls[b].res = "ok"
             /\ calls[b].id = calls[u].id
             /\ calls[b].desc = calls[g].desc
    /\ upc = "update" =>
          /\ backups[video.id] # None
          /\ backups[video.id].description = current_desc
          /\ \E g \in Fetched(i) : calls[g].desc = current_desc

C1_Witness ==
    \E k \in 1..Len(selected) : \E u \in Updates(k) :
       /\ calls[u].res = "ok"
       /\ remote[calls[u].id] = calls[u].desc
       /\ backups[calls[u].id].description # calls[u].desc

\* C2: when the loop's update call for an item failed with HttpError and the
\* restore's update call then succeeded, the item has the entry "Update failed,
\* restored from backup" in `errors`, is counted in error_count and not in
\* success_count, and the live description is the one fetched for the item
\* before the update was attempted.
C2_RolledBack ==
    \A k \in 1..Len(selected) :
       (Finished(k) /\ HttpFailedUpdates(k) # {} /\ RestoreDone(k) # {}) =>
          /\ \E n \in EntriesOf(k) : errors[n] = Restored(selected[k])
          /\ Cardinality(EntriesOf(k)) = 1
          /\ error_count = Len(errors)
          /\ success_count + error_count = i - 1
          /\ \A g \in Fetched(k) : remote[selected[k].id] = calls[g].desc

\* The failed update had been carried out by the service, and the restore undid it.
C2_Witness ==
    \E k \in 1..Len(selected) :
       /\ Finished(k)
       /\ HttpFailedUpdates(k) # {}
       /\ RestoreDone(k) # {}
       /\ \A g \in Fetched(k) : remote[selected[k].id] = calls[g].desc
       /\ \E u \in HttpFailedUpdates(k) : calls[u].desc # remote[selected[k].id]

\* restore_from_backup was called for item k after call n and before any call
\* made for a later item, and what it sent is what save_backup stored for k.
RestoreAttempted(k, n) ==
    \E r \in ByLoop(k, "restore_from_backup") :
       /\ n < r
       /\ \A m \in DOMAIN calls : calls[m].item > k => r < m
       /\ \A w \in ByRestore(k, "update_video_description") :
             \E b \in ByLoop(k, "save_backup") :
                calls[b].res = "ok" /\ calls[b].desc = calls[w].desc

\* C3 as stated: whenever the update call for an item fails, with an HTTP error
\* response or with any other failure of the request, restore_from_backup is
\* attempted for the item before the next item is processed.
C3_RestoreOnAnyFailure ==
    \A k \in 1..Len(selected) :
       Finished(k) => \A u \in FailedUpdates(k) : RestoreAttempted(k, u)

\* C3 amended: whenever the update call for an item fails with HttpError,
\* restore_from_backup is attempted for the item, with the backup written for
\* it in this run, before the next item is processed; after any other failure
\* of the update call no restore is attempted.
C3_RestoreOnHttpError ==
    \A k \in 1..Len(selected) :
       Finished(k) =>
          /\ \A u \in HttpFailedUpdates(k) : RestoreAttempted(k, u)
          /\ (FailedUpdates(k) # {} /\ HttpFailedUpdates(k) = {}) =>
                ByLoop(k, "restore_from_backup") = {}

C3_Witness ==
    \E k \in 1..Len(selected) :
       /\ Finished(k)
       /\ k < Len(selected)
       /\ Fetched(k + 1) # {}
       /\ HttpFailedUpdates(k) # {}
       /\ ByRestore(k, "update_video_description") # {}

\* The calls of the restore for item k that failed with an exception.
FailedRestoreCalls(k) ==
    {n \in DOMAIN calls : /\ calls[n].by = "restore_from_backup"
                          /\ calls[n].item = k
                          /\ calls[n].res \in {"HttpError", "Exception"}}

\* C4: when the update call for an item failed and the restore attempted for it
\* failed too, the item's entry in `errors` contains the error message of the
\* failed update and the error message of the failed restore.
C4_BothMessages ==
    \A k \in 1..Len(selected) :
       (Finished(k) /\ FailedUpdates(k) # {} /\ FailedRestoreCalls(k) # {}) =>
          \E n \in EntriesOf(k) :
             /\ \A u \in FailedUpdates(k) : calls[u].msg \in Range(errors[n])
             /\ \A r \in FailedRestoreCalls(k) : calls[r].msg \in Range(errors[n])

\* The step in which get_video_details returns nothing for the current item.
FetchedNothing ==
    /\ upc = "fetch"
    /\ Len(calls') = Len(calls) + 1
    /\ Last(calls').op = "get_video_details"
    /\ Last(calls').res = "none"

\* C5: when the fetch for an item returns nothing, the item ends in that step
\* with the entry "Could not fetch details" and one more error, the backup file
\* and the service are unchanged, and no save_backup and no update call is ever
\* logged for the item.
C5_VanishedItem ==
    /\ [](\A k \in 1..Len(selected) :
            (\E g \in ByLoop(k, "get_video_details") : calls[g].res = "none") =>
               /\ ByLoop(k, "save_backup") = {}
               /\ Updates(k) = {}
               /\ ByLoop(k, "restore_from_backup") = {})
    /\ [][FetchedNothing =>
            /\ backups' = backups
            /\ remote' = remote
            /\ i' = i + 1
            /\ errors' = Append(errors, CouldNotFetch(video))
            /\ error_count' = error_count + 1
            /\ success_count' = success_count]_vars

C5_Witness ==
    /\ upc = "finish"
    /\ \E k \in 1..Len(selected) :
          /\ \E g \in ByLoop(k, "get_video_details") : calls[g].res = "none"
          /\ \E n \in EntriesOf(k) : errors[n] = CouldNotFetch(selected[k])
          /\ backups[selected[k].id] # None

\* The step in which save_backup succeeds for an item whose new description
\* equals the fetched one.
BackedUpUnchanged ==
    /\ upc = "backup"
    /\ Len(calls') = Len(calls) + 1
    /\ Last(calls').op = "save_backup"
    /\ Last(calls').res = "ok"
    /\ new_desc = current_desc

\* C6: for an item whose computed new description equals the fetched one, no
\* update call is issued (every update call the loop issues carries a text that
\* differs from the fetched one) and the item is counted in success_count with
\* no entry added to `errors`.
C6_UnchangedIsSuccess ==
    /\ [](\A k \in 1..Len(selected) : \A u \in Updates(k) :
            \A g \in Fetched(k) : calls[u].desc # calls[g].desc)
    /\ [][BackedUpUnchanged =>
            /\ upc' # "update"
            /\ i' = i + 1
            /\ success_count' = success_count + 1
            /\ errors' = errors
            /\ error_count' = error_count
            /\ remote' = remote]_vars

\* The pattern occurs in the fetched text and the replacement puts it back.
C6_Witness ==
    /\ upc = "finish"
    /\ success_count = 1
    /\ \E k \in 1..Len(selected) :
          /\ Updates(k) = {}
          /\ EntriesOf(k) = {}
          /\ \E g \in Fetched(k) : PatternFound(calls[g].desc, find_pattern)

\* The items for which the loop called get_video_details, in call order.
FetchOrder ==
    LET gets == SelectSeq(calls, LAMBDA e : /\ e.op = "get_video_details"
                                            /\ e.by = "update_selected_videos")
    IN  [n \in 1..Len(gets) |-> gets[n].item]

\* C7: whatever fails for an item (the fetch returning nothing or raising, the
\* backup write raising, the update raising, the restore failing or raising),
\* no exception leaves the loop, the loop can always take its next step, and
\* when it ends every selected item has been processed, in order.
C7_BatchCompletes ==
    /\ upc # "raised"
    /\ upc \in {"fetch", "backup", "update", "restore", "restore_update"} =>
          /\ i \in 1..Len(selected)
          /\ ENABLED Next
    /\ upc \in {"finish", "done"} =>
          /\ i = Len(selected) + 1
          /\ FetchOrder = [n \in 1..Len(selected) |-> n]

\* The first item failed in the backup write and the second in the restore.
C7_Witness ==
    /\ upc = "finish"
    /\ Len(selected) = 2
    /\ \E b \in ByLoop(1, "save_backup") : calls[b].res = "Exception"
    /\ FailedRestoreCalls(2) # {}
    /\ error_count = 2

\* ------------------------------------------ properties: check_url_status

\* The network requests issued by call number n of worker t.
RequestsOf(t, n) == {k \in DOMAIN probes : probes[k].t = t /\ probes[k].n = n}

\* The HEAD requests for a url issued by calls made with use_cache = True.
DefaultProbes(url) ==
    {k \in DOMAIN probes : /\ probes[k].url = url
                           /\ probes[k].method = "HEAD"
                           /\ probes[k].use_cache}

\* C8: of the check_url_status calls (default use_cache) for one url, running
\* concurrently or one after another, at most one issues network requests: a
\* url is probed over the network at most once in a process run.
C8_OneProbePerUrl ==
    \A url \in Urls : Cardinality(DefaultProbes(url)) <= 1

\* C9: of the calls made one after another with the default use_cache for the
\* same url, only the first issues network requests; every later one returns
\* from the cache, issues none, and returns the status and error the first
\* returned; and when a call has returned, the cache holds what it returned.
C9_SequentialCallsAgree ==
    \A k \in DOMAIN returns :
       /\ url_cache[returns[k].url] =
             Result(returns[k].status, returns[k].error)
       /\ \A j \in 1..(k - 1) :
             returns[j].url = returns[k].url =>
                /\ returns[k].from_cache
                /\ RequestsOf(returns[k].t, returns[k].n) = {}
                /\ returns[k].status = returns[j].status
                /\ returns[k].error = returns[j].error
       /\ (\A j \in 1..(k - 1) : returns[j].url # returns[k].url) =>
             /\ ~returns[k].from_cache
             /\ RequestsOf(returns[k].t, returns[k].n) # {}

\* The first call found the link unreachable and the second returned that.
C9_Witness ==
    /\ Len(returns) = 2
    /\ returns[1].url = returns[2].url
    /\ returns[1].status = StatusNone
    /\ returns[2].from_cache
    /\ returns[2].error = returns[1].error

\* C10: once _url_cache holds an entry for a url, no step of any
\* check_url_status call changes that entry.
C10_WriteOnce ==
    [][\A url \in Urls :
          url_cache[url] # None => url_cache'[url] = url_cache[url]]_vars

MethodRequests(t, n, method) ==
    {k \in RequestsOf(t, n) : probes[k].method = method}

\* C20: a check_url_status call that misses the cache issues exactly one HEAD
\* request; it issues a GET request to the same url exactly when the HEAD
\* request was answered with HTTP status 405, and then exactly one, after the
\* HEAD; it never issues more than two requests, and any other HTTP error
\* status is what the call returns, with no second request.
C20_HeadThenGetOn405 ==
    /\ \A t \in Workers :
          Cardinality(RequestsOf(t, pcalls[t])) <= 2
    /\ \A r \in DOMAIN returns :
          LET ret == returns[r]
              heads == MethodRequests(ret.t, ret.n, "HEAD")
              gets == MethodRequests(ret.t, ret.n, "GET")
          IN  IF ret.from_cache
              THEN RequestsOf(ret.t, ret.n) = {}
              ELSE /\ Cardinality(heads) = 1
                   /\ Cardinality(heads \cup gets) <= 2
                   /\ \A h \in heads :
                         LET a == probes[h].answer
                         IN  /\ probes[h].url = ret.url
                             /\ IF a.kind = "HTTPError" /\ a.code = 405
                                THEN /\ Cardinality(gets) = 1
                                     /\ \A g \in gets : /\ g > h
                                                         /\ probes[g].url = ret.url
                                ELSE gets = {}
                             /\ (a.kind = "HTTPError" /\ a.code # 405) =>
                                   /\ ret.status = a.code
                                   /\ ret.error = a.reason

\* One call was answered 405 on HEAD and made its GET; another was answered
\* 404 on HEAD and returned it.
C20_Witness ==
    /\ \E r \in DOMAIN returns :
          /\ Cardinality(MethodRequests(returns[r].t, returns[r].n, "GET")) = 1
          /\ \E h \in MethodRequests(returns[r].t, returns[r].n, "HEAD") :
                probes[h].answer.code = 405
    /\ \E r \in DOMAIN returns :
          /\ ~returns[r].from_cache
          /\ returns[r].status = 404
          /\ MethodRequests(returns[r].t, returns[r].n, "GET") = {}

\* ---------------------------------------- the pattern functions on their own

\* Any description, any Find text and any Replace text up to the bound.
FnInit ==
    /\ fn_in \in [text : Strs(MaxLen), pattern : Strs(MaxLen),
                  replacement : Strs(MaxLen)]
    /\ fn_out = [matched |-> None, processed |-> None]

\* check_video_needs_update(text, pattern)
CallMatcher ==
    /\ fn_out.matched = None
    /\ fn_out' = [fn_out EXCEPT
                    !.matched = check_video_needs_update(fn_in.text, fn_in.pattern)]
    /\ UNCHANGED <<fn_in, notFnVars>>

\* process_description(text, pattern, replacement)
CallReplacer ==
    /\ fn_out.processed = None
    /\ fn_out' = [fn_out EXCEPT
                    !.processed = process_description(fn_in.text, fn_in.pattern,
                                                      fn_in.replacement)]
    /\ UNCHANGED <<fn_in, notFnVars>>

FnSpecInit == UpdateQuiet /\ ProbeInit /\ FnInit /\ BatchQuiet /\ StoreQuiet /\ ScanQuiet /\ MetaQuiet /\ UrlQuiet /\ LinkQuiet /\ GuiQuiet

FnNext ==
    \/ CallMatcher
    \/ CallReplacer

\* The matcher and the replacer applied to the same arguments.
FnSpec == FnSpecInit /\ [][FnNext]_vars

BothCalled == fn_out.matched # None /\ fn_out.processed # None

\* C12 as stated: for every description, pattern and replacement the matcher
\* reports no match exactly when the replacer reports was_modified = false.
C12_MatcherReplacerAgree ==
    BothCalled =>
       (~fn_out.matched.needs_update <=> ~fn_out.processed.was_modified)

\* C12 amended: no match implies was_modified = false; a match implies
\* was_modified = true whenever the replacement differs from the pattern; and
\* when the replacement equals the pattern a match leaves the text as it was,
\* so was_modified = false although the matcher reports a match.
C12_AgreeUnlessSameText ==
    BothCalled =>
       /\ ~fn_out.matched.needs_update => ~fn_out.processed.was_modified
       /\ (fn_out.matched.needs_update /\ fn_in.replacement # fn_in.pattern) =>
             fn_out.processed.was_modified
       /\ (fn_out.matched.needs_update /\ fn_in.replacement = fn_in.pattern) =>
             /\ ~fn_out.processed.was_modified
             /\ fn_out.processed.new_description = fn_in.text

\* A match that changes the text, with the pattern occurring twice.
C12_Witness ==
    /\ BothCalled
    /\ fn_out.matched.needs_update
    /\ fn_out.processed.was_modified
    /\ fn_in.text = fn_in.pattern \o fn_in.pattern

\* ------------------------------------------------- the scan's batch loop

\* self.videos[batch_start:batch_end], ids only
batch_ids(listing, from, to) ==
    [k \in 1..(Min(to, Len(listing)) - Min(from, Len(listing))) |-> listing[from + k]]

\* video_ids[:50] in get_video_details_batch
RequestedIds(video_ids) ==
    [k \in 1..Min(Len(video_ids), MaxIdsPerRequest) |-> video_ids[k]]

\* A listing of any length up to the bound; its ids are 1..n.
BatchInit ==
    /\ b_videos \in {[k \in 1..n |-> k] : n \in 0..MaxVideos}
    /\ b_pc = "loop"
    /\ b_start = 0
    /\ b_requests = <<>>

\* One iteration of `for batch_start in range(0, total, batch_size)`: the
\* detail request for the batch.
BatchRequest ==
    LET total == Len(b_videos)
        ids == batch_ids(b_videos, b_start, batch_end(b_start, total))
    IN  /\ b_pc = "loop"
        /\ b_start < total
        /\ b_requests' = IF ids = <<>> THEN b_requests
                         ELSE Append(b_requests, RequestedIds(ids))
        /\ b_start' = next_batch_start(b_start)
        /\ UNCHANGED <<b_videos, b_pc, notBatchVars>>

\* The range is exhausted.
BatchesDone ==
    /\ b_pc = "loop"
    /\ b_start >= Len(b_videos)
    /\ b_pc' = "done"
    /\ UNCHANGED <<b_videos, b_start, b_requests, notBatchVars>>

BatchSpecInit == UpdateQuiet /\ ProbeInit /\ FnQuiet /\ BatchInit /\ StoreQuiet /\ ScanQuiet /\ MetaQuiet /\ UrlQuiet /\ LinkQuiet /\ GuiQuiet

BatchNext ==
    \/ BatchRequest
    \/ BatchesDone

BatchSpec == BatchSpecInit /\ [][BatchNext]_vars

CeilDiv(n, d) == (n + d - 1) \div d

RequestsHolding(id) ==
    {r \in 1..Len(b_requests) :
        \E k \in 1..Len(b_requests[r]) : b_requests[r][k] = id}

\* C15: a scan over n listed videos issues exactly ceil(n / 50) detail
\* requests, each with at most 50 ids, and every listed id is in exactly one
\* request; 120 listed videos make three requests.
C15_BatchesCoverListing ==
    b_pc = "done" =>
       /\ Len(b_requests) = CeilDiv(Len(b_videos), 50)
       /\ \A r \in 1..Len(b_requests) : Len(b_requests[r]) <= 50
       /\ \A id \in 1..Len(b_videos) :
             /\ Cardinality(RequestsHolding(id)) = 1
             /\ \A r \in RequestsHolding(id) :
                   Cardinality({k \in 1..Len(b_requests[r]) :
                                   b_requests[r][k] = id}) = 1
       /\ Len(b_videos) = 120 => Len(b_requests) = 3

\* The loop has finished over 120 videos with three requests, the last one
\* shorter than the others.
C15_Witness ==
    /\ b_pc = "done"
    /\ Len(b_videos) = 120
    /\ Len(b_requests) = 3
    /\ Len(b_requests[3]) = 20

\* ------------------------------------ the backup functions called directly

Descriptions == {<<>>, <<"a">>, <<"b">>}

Returns(success, msg) == [kind |-> "return", success |-> success, msg |-> msg]
Raises(e) == [kind |-> "raise", error |-> e]

StoreOps ==
    Cardinality({k \in 1..Len(calls) :
                    calls[k].op \in {"save_backup", "restore_from_backup"}})

\* Any live descriptions, and a backup file with or without an earlier record.
StoreInit ==
    /\ remote \in [Ids -> Descriptions]
    /\ \E had \in {{}, {Channel[1]}} :
          backups = [id \in Ids |-> IF id \in had THEN EarlierBackup(id) ELSE None]
    /\ find_pattern = <<>>
    /\ replace_with = <<>>
    /\ videos = <<>>
    /\ videos_needing_update = <<>>
    /\ upc = "idle"
    /\ selected = <<>>
    /\ i = 1
    /\ video_details = None
    /\ success_count = 0
    /\ error_count = 0
    /\ errors = <<>>
    /\ calls = <<>>
    /\ s_pc = "idle"
    /\ s_id = Channel[1]
    /\ s_ret = [kind |-> "none"]

storeFrame == <<find_pattern, replace_with, videos, videos_needing_update, upc,
                selected, i, video_details, success_count, error_count, errors,
                probeVars, fnVars, batchVars, scanVars,
                metaVars,
                urlVars,
                linkVars,
                guiVars>>

\* save_backup(video_id, Title(video_id), old_description)
SaveBackupCall(video_id, old_description) ==
    /\ s_pc = "idle"
    /\ StoreOps < MaxStoreOps
    /\ \/ /\ backups' = save_backup(backups, video_id, Title(video_id), old_description)
          /\ Log(Ev("save_backup", "client", 0, video_id, old_description, "ok", ""))
          /\ s_ret' = [kind |-> "saved"]
       \/ \E e \in BackupRaises :
             /\ backups' = backups
             /\ Log(Ev("save_backup", "client", 0, video_id, old_description,
                       e.type, e.msg))
             /\ s_ret' = Raises(e)
    /\ UNCHANGED <<remote, s_pc, s_id, storeFrame>>

\* restore_from_backup(youtube_api, video_id) up to and including its
\* get_video_details call.
RestoreCall(video_id) ==
    /\ s_pc = "idle"
    /\ StoreOps < MaxStoreOps
    /\ s_id' = video_id
    /\ LET begun == Append(calls, Ev("restore_from_backup", "client", 0, video_id,
                                     NoText, "called", ""))
           left == backups_after_restore(backups, video_id)
       IN  IF ~HasBackup(backups, video_id)
           THEN /\ calls' = begun
                /\ s_ret' = Returns(FALSE, NoBackupMsg)
                /\ backups' = left
                /\ s_pc' = "idle"
           ELSE \/ /\ calls' = Append(begun, Ev("get_video_details", "restore_from_backup",
                                                0, video_id, remote[video_id], "ok", ""))
                   /\ s_pc' = "restore_update"
                   /\ UNCHANGED <<s_ret, backups>>
                \/ /\ calls' = Append(begun, Ev("get_video_details", "restore_from_backup",
                                                0, video_id, NoText, "none", ""))
                   /\ s_ret' = Returns(FALSE, NoDetailsMsg)
                   /\ backups' = left
                   /\ s_pc' = "idle"
                \/ \E e \in RestoreFetchRaises :
                      \* not inside restore_from_backup's try: it leaves the function
                      /\ calls' = Append(begun, Ev("get_video_details", "restore_from_backup",
                                                   0, video_id, NoText, e.type, e.msg))
                      /\ s_ret' = Raises(e)
                      /\ backups' = left
                      /\ s_pc' = "idle"
    /\ UNCHANGED <<remote, storeFrame>>

\* restore_from_backup's try, for the direct call: the update call and the
\* two returns.
RestoreCallUpdate ==
    /\ s_pc = "restore_update"
    /\ LET text == backup_description(backups, s_id)
       IN  \/ /\ remote' = update_video_description(remote, s_id, text)
              /\ Log(Ev("update_video_description", "restore_from_backup", 0,
                        s_id, text, "ok", ""))
              /\ s_ret' = Returns(TRUE, RestoredMsg)
           \/ \E e \in RestoreUpdateRaises, applied \in BOOLEAN :
                 /\ remote' = IF applied
                              THEN update_video_description(remote, s_id, text)
                              ELSE remote
                 /\ Log(Ev("update_video_description", "restore_from_backup", 0,
                           s_id, text, e.type, e.msg))
                 /\ s_ret' = Returns(FALSE, e.msg)
    /\ backups' = backups_after_restore(backups, s_id)
    /\ s_pc' = "idle"
    /\ UNCHANGED <<s_id, storeFrame>>

StoreSpecInit == StoreInit /\ ProbeInit /\ FnQuiet /\ BatchQuiet /\ ScanQuiet /\ MetaQuiet /\ UrlQuiet /\ LinkQuiet /\ GuiQuiet

StoreNext ==
    \/ \E video_id \in Ids, old_description \in Descriptions :
          SaveBackupCall(video_id, old_description)
    \/ \E video_id \in Ids : RestoreCall(video_id)
    \/ RestoreCallUpdate

\* A client calling save_backup and restore_from_backup with any arguments.
StoreSpec == StoreSpecInit /\ [][StoreNext]_vars

\* The step is (part of) a direct call of restore_from_backup.
RestoreStep == s_pc' # s_pc \/ (calls' # calls /\ Last(calls').op # "save_backup")

\* The step ends a direct call of restore_from_backup.
RestoreEnds == RestoreStep /\ s_pc' = "idle"

Recorded(b) == {id \in Ids : b[id] # None}

\* C13: restore_from_backup never raises: every call ends in a
\* (success, message) pair, and a missing backup, a fetch that returns
\* nothing, a fetch that fails and a failing update each give (False, message).
C13_RestoreNeverRaises ==
    [][RestoreEnds =>
          /\ s_ret'.kind = "return"
          /\ Last(calls').res # "ok" => ~s_ret'.success]_vars

\* C17: save_backup(X, title, d) leaves one record for X with description d,
\* leaves the record of every other id as it was, and adds no id but X.
C17_SaveFrame ==
    [][(calls' # calls /\ Last(calls').op = "save_backup" /\ Last(calls').res = "ok") =>
          LET X == Last(calls').id
              d == Last(calls').desc
          IN  /\ backups'[X] # None
              /\ backups'[X].description = d
              /\ \A Y \in Ids \ {X} : backups'[Y] = backups[Y]
              /\ Recorded(backups') \subseteq Recorded(backups) \cup {X}]_vars

\* A save replaced an earlier record of the same id while another id's record
\* was in the store.
C17_Witness ==
    /\ calls # <<>>
    /\ Last(calls).op = "save_backup"
    /\ Last(calls).res = "ok"
    /\ \E k \in 1..(Len(calls) - 1) :
          /\ calls[k].op = "save_backup" /\ calls[k].res = "ok"
          /\ calls[k].id = Last(calls).id
          /\ calls[k].desc # Last(calls).desc
    /\ \E Y \in Ids \ {Last(calls).id} : backups[Y] # None
    /\ backups[Last(calls).id].description = Last(calls).desc

\* C18: restore_from_backup never changes the backup store, whatever its
\* outcome, and every successful restore of X, the first or a later one,
\* leaves the live description of X equal to the backed-up description.
C18_RestoreKeepsStore ==
    [][RestoreStep =>
          /\ backups' = backups
          /\ (RestoreEnds /\ s_ret'.kind = "return" /\ s_ret'.success) =>
                remote'[s_id] = backups[s_id].description]_vars

SuccessfulRestores(id) ==
    {k \in 1..Len(calls) :
        /\ calls[k].op = "update_video_description"
        /\ calls[k].by = "restore_from_backup"
        /\ calls[k].id = id
        /\ calls[k].res = "ok"}

\* A second successful restore of the same id has just returned, and the live
\* description had been different from the backup before the first.
C18_Witness ==
    /\ s_pc = "idle"
    /\ s_ret = Returns(TRUE, RestoredMsg)
    /\ Cardinality(SuccessfulRestores(s_id)) = 2
    /\ \E k \in 1..Len(calls) :
          /\ calls[k].op = "get_video_details"
          /\ calls[k].id = s_id
          /\ calls[k].desc # backups[s_id].description
    /\ remote[s_id] = backups[s_id].description

\* C19: restore_from_backup for an id without a record returns
\* (False, "No backup found ..."), issues no detail fetch and no update, and
\* leaves the backup store and the remote video unchanged.
C19_NoBackupNoRequest ==
    [][(s_pc = "idle" /\ calls' # calls
        /\ calls'[Len(calls) + 1].op = "restore_from_backup"
        /\ backups[calls'[Len(calls) + 1].id] = None) =>
          /\ s_ret' = Returns(FALSE, NoBackupMsg)
          /\ Len(calls') = Len(calls) + 1
          /\ s_pc' = "idle"
          /\ remote' = remote
          /\ backups' = backups]_vars

\* The call for an id without a record has returned while another id has one.
C19_Witness ==
    /\ calls # <<>>
    /\ Last(calls).op = "restore_from_backup"
    /\ backups[Last(calls).id] = None
    /\ \E Y \in Ids : backups[Y] # None
    /\ s_ret = Returns(FALSE, NoBackupMsg)

\* ------------------------------------- the background threads of run()

\* A thread that has been started and has not yet left its target function.
Active(t) == tpc[t] \in {"read", "channels", "page", "batch", "table"}

\* The next unused thread: every click makes a new Thread object.
FreeThread(t) == tkind[t] = "none" /\ (t = "t2" => tkind["t1"] # "none")

Answer(t, op, items, token, present, res) ==
    [t |-> t, op |-> op, items |-> items, token |-> token, present |-> present,
     res |-> res]

scanFrame == <<remote, backups, upc, selected, i, video_details, success_count,
               error_count, errors, calls, probeVars, fnVars, batchVars, storeVars,
                metaVars,
                urlVars,
                linkVars>>

\* `elif event == "-SEARCH-": threading.Thread(target=self.search_videos).start()`
StartSearch(t) ==
    /\ FreeThread(t)
    /\ tkind' = [tkind EXCEPT ![t] = "search"]
    /\ tpc' = [tpc EXCEPT ![t] = "read"]
    /\ UNCHANGED <<find_pattern, replace_with, videos, videos_needing_update, tlist,
                   tstart, ttotal, tfound, scan_log, link_check_result, scanFrame,
                   table>>

\* A Search click, wherever the loop stands when it is handled.
ClickSearch(t) == StartSearch(t) /\ UNCHANGED <<loop_pc, poll_result, shown>>

\* `elif event == "-CHECK_LINKS-": threading.Thread(target=self.check_broken_links).start()`
StartCheckLinks(t) ==
    /\ FreeThread(t)
    /\ tkind' = [tkind EXCEPT ![t] = "links"]
    /\ tpc' = [tpc EXCEPT ![t] = "channels"]
    /\ UNCHANGED <<find_pattern, replace_with, videos, videos_needing_update, tlist,
                   tstart, ttotal, tfound, scan_log, link_check_result, scanFrame,
                   table>>

\* A Check Links click, wherever the loop stands when it is handled.
ClickCheckLinks(t) == StartCheckLinks(t) /\ UNCHANGED <<loop_pc, poll_result, shown>>

\* search_videos: the two fields are read into self.find_pattern and
\* self.replace_with, and a blank pattern ends the scan.
SearchRead(t) ==
    /\ tkind[t] = "search"
    /\ tpc[t] = "read"
    /\ \E p \in Patterns, r \in Replacements :
          /\ find_pattern' = p
          /\ replace_with' = r
          /\ tpc' = [tpc EXCEPT ![t] = IF p = <<>> THEN "returned_blank" ELSE "channels"]
    /\ UNCHANGED <<videos, videos_needing_update, tkind, tlist, tstart, ttotal,
                   tfound, scan_log, link_check_result, scanFrame, guiVars>>

\* get_all_videos up to its loop: the channels().list request.
ListChannels(t) ==
    /\ tpc[t] = "channels"
    /\ \/ \* the request raises, or the client is not authenticated
          /\ tpc' = [tpc EXCEPT ![t] = "failed"]
          /\ scan_log' = Append(scan_log, Answer(t, "channels", <<>>, FALSE, {}, "raise"))
          /\ UNCHANGED <<videos, tlist>>
       \/ \* no channel: `return []`, then `if not self.videos: return`
          /\ videos' = <<>>
          /\ tpc' = [tpc EXCEPT ![t] = "returned_empty"]
          /\ scan_log' = Append(scan_log, Answer(t, "channels", <<>>, FALSE, {}, "none"))
          /\ UNCHANGED tlist
       \/ /\ tlist' = [tlist EXCEPT ![t] = <<>>]
          /\ tpc' = [tpc EXCEPT ![t] = "page"]
          /\ scan_log' = Append(scan_log, Answer(t, "channels", <<>>, FALSE, {}, "ok"))
          /\ UNCHANGED videos
    /\ UNCHANGED <<find_pattern, replace_with, videos_needing_update, tkind, tstart,
                   ttotal, tfound, link_check_result, scanFrame, guiVars>>

AddPageKeepingLast(listing, items) == items

\* `videos.append(...)` for each item of the page
AddPage(listing, items) == listing \o items

\* One playlistItems().list request of get_all_videos.  The remote cuts the
\* channel into pages as it likes; a page carries a token while items remain.
\* The page without a token ends get_all_videos, and the caller assigns
\* self.videos, empties the candidate list and sets up the batch loop.
ListPage(t) ==
    /\ tpc[t] = "page"
    /\ \/ /\ tpc' = [tpc EXCEPT ![t] = "failed"]
          /\ scan_log' = Append(scan_log, Answer(t, "page", <<>>, FALSE, {}, "raise"))
          /\ UNCHANGED <<videos, videos_needing_update, tlist, tstart, ttotal, tfound>>
       \/ \E m \in 1..(Len(ChannelRefs) - Len(tlist[t])) :
             LET items == SubSeq(ChannelRefs, Len(tlist[t]) + 1, Len(tlist[t]) + m)
                 listing == AddPage(tlist[t], items)
                 next_page_token == Len(tlist[t]) + m < Len(ChannelRefs)
             IN  /\ scan_log' = Append(scan_log,
                                       Answer(t, "page", items, next_page_token, {}, "ok"))
                 /\ tlist' = [tlist EXCEPT ![t] = listing]
                 /\ IF next_page_token
                    THEN UNCHANGED <<videos, videos_needing_update, tpc, tstart,
                                     ttotal, tfound>>
                    ELSE /\ videos' = listing
                         /\ videos_needing_update' = <<>>
                         /\ ttotal' = [ttotal EXCEPT ![t] = Len(listing)]
                         /\ tstart' = [tstart EXCEPT ![t] = 0]
                         /\ tfound' = [tfound EXCEPT ![t] = FALSE]
                         /\ tpc' = [tpc EXCEPT ![t] = "batch"]
    /\ UNCHANGED <<find_pattern, replace_with, tkind, link_check_result, scanFrame, guiVars>>

\* The ids of a sequence of listing entries.
IdsOf(refs) == [k \in 1..Len(refs) |-> refs[k].id]

\* self.videos[batch_start:batch_end]
BatchOf(t) == batch_ids(videos, tstart[t], batch_end(tstart[t], ttotal[t]))

\* One iteration of the batch loop of search_videos, or its end.
SearchBatch(t) ==
    /\ tkind[t] = "search"
    /\ tpc[t] = "batch"
    /\ IF tstart[t] >= ttotal[t]
       THEN /\ tpc' = [tpc EXCEPT ![t] = "table"]
            /\ UNCHANGED <<videos_needing_update, tstart, scan_log>>
       ELSE LET asked == RequestedIds(IdsOf(BatchOf(t)))
            IN  \/ /\ asked # <<>>
                   /\ tpc' = [tpc EXCEPT ![t] = "failed"]
                   /\ scan_log' = Append(scan_log,
                                         Answer(t, "details", asked, FALSE, {}, "raise"))
                   /\ UNCHANGED <<videos_needing_update, tstart>>
                \/ \E present \in SUBSET Range(asked) :
                      /\ scan_log' = Append(scan_log,
                                            Answer(t, "details", asked, FALSE, present, "ok"))
                      /\ videos_needing_update' =
                            videos_needing_update \o Scan(BatchOf(t), present)
                      /\ tstart' = [tstart EXCEPT ![t] = next_batch_start(@)]
                      /\ UNCHANGED tpc
    /\ UNCHANGED <<find_pattern, replace_with, videos, tkind, tlist, ttotal, tfound,
                   link_check_result, scanFrame, guiVars>>

\* update_video_table and the status line that end search_videos.
SearchTable(t) ==
    /\ tkind[t] = "search"
    /\ tpc[t] = "table"
    /\ table' = table_data(videos_needing_update)
    /\ tpc' = [tpc EXCEPT ![t] = "finished"]
    /\ UNCHANGED <<find_pattern, replace_with, videos, videos_needing_update, tkind,
                   tlist, tstart, ttotal, tfound, scan_log, link_check_result,
                   scanFrame, loop_pc, poll_result, shown>>

\* The candidates check_broken_links appends for a batch: the videos with a
\* broken link, as the link checks of this batch came out.
BrokenCandidates(refs, broken) ==
    SelectSeq([k \in 1..Len(refs) |-> Candidate(refs[k].id, remote[refs[k].id], FALSE)],
              LAMBDA c : c.id \in broken)

\* One iteration of the batch loop of check_broken_links, or its end.  Which
\* of the returned descriptions hold links, and which of those links are
\* broken, is the outcome of extract_urls and check_url_status.
LinkBatch(t) ==
    /\ tkind[t] = "links"
    /\ tpc[t] = "batch"
    /\ IF tstart[t] >= ttotal[t]
       THEN /\ tpc' = [tpc EXCEPT ![t] = "table"]
            /\ UNCHANGED <<videos_needing_update, tstart, tfound, scan_log>>
       ELSE LET asked == RequestedIds(IdsOf(BatchOf(t)))
            IN  \/ /\ asked # <<>>
                   /\ tpc' = [tpc EXCEPT ![t] = "failed"]
                   /\ scan_log' = Append(scan_log,
                                         Answer(t, "details", asked, FALSE, {}, "raise"))
                   /\ UNCHANGED <<videos_needing_update, tstart, tfound>>
                \/ \E present \in SUBSET Range(asked) :
                   \E with_links \in SUBSET present :
                   \E broken \in SUBSET with_links :
                      /\ scan_log' = Append(scan_log,
                                            Answer(t, "details", asked, FALSE, present, "ok"))
                      /\ videos_needing_update' =
                            videos_needing_update \o BrokenCandidates(BatchOf(t), broken)
                      /\ tfound' = [tfound EXCEPT ![t] = @ \/ with_links # {}]
                      /\ tstart' = [tstart EXCEPT ![t] = next_batch_start(@)]
                      /\ UNCHANGED tpc
    /\ UNCHANGED <<find_pattern, replace_with, videos, tkind, tlist, ttotal,
                   link_check_result, scanFrame, guiVars>>

\* The end of check_broken_links: the table, the Excel export and the slot.
LinkPublish(t) ==
    /\ tkind[t] = "links"
    /\ tpc[t] = "table"
    /\ table' = table_data(videos_needing_update)
    /\ \/ /\ link_check_result' = IF tfound[t] THEN [by |-> t] ELSE None
          /\ tpc' = [tpc EXCEPT ![t] = "finished"]
       \/ \* export_all_links_to_excel raises
          /\ tfound[t]
          /\ tpc' = [tpc EXCEPT ![t] = "failed"]
          /\ UNCHANGED link_check_result
    /\ UNCHANGED <<find_pattern, replace_with, videos, videos_needing_update, tkind,
                   tlist, tstart, ttotal, tfound, scan_log, scanFrame, loop_pc,
                   poll_result, shown>>

\* The editor before a Search click: any live descriptions, and either nothing
\* scanned yet or the listing and the ticked candidates of an earlier scan.
ScanInit ==
    /\ remote \in [Ids -> Strs(MaxLen)]
    /\ backups = [id \in Ids |-> None]
    /\ find_pattern = <<>>
    /\ replace_with = <<>>
    /\ \/ /\ videos = <<>>
          /\ videos_needing_update = <<>>
       \/ /\ videos = ChannelRefs
          /\ videos_needing_update =
                [k \in 1..Len(Channel) |-> Candidate(Channel[k], remote[Channel[k]], TRUE)]
    /\ upc = "idle"
    /\ selected = <<>>
    /\ i = 1
    /\ video_details = None
    /\ success_count = 0
    /\ error_count = 0
    /\ errors = <<>>
    /\ calls = <<>>
    /\ ScanQuiet

ScanSpecInit == ScanInit /\ ProbeInit /\ FnQuiet /\ BatchQuiet /\ StoreQuiet /\ MetaQuiet /\ UrlQuiet /\ LinkQuiet /\ GuiQuiet

ScanNext ==
    \/ ClickSearch("t1")
    \/ SearchRead("t1")
    \/ ListChannels("t1")
    \/ ListPage("t1")
    \/ SearchBatch("t1")
    \/ SearchTable("t1")

\* One Search click and the scan it starts.
ScanSpec == ScanSpecInit /\ [][ScanNext]_vars

\* The editor before the clicks on Search and Check Links.
GuiInit ==
    /\ remote \in [Ids -> {<<"a">>}]
    /\ backups = [id \in Ids |-> None]
    /\ find_pattern = <<>>
    /\ replace_with = <<>>
    /\ videos = <<>>
    /\ videos_needing_update = <<>>
    /\ upc = "idle"
    /\ selected = <<>>
    /\ i = 1
    /\ video_details = None
    /\ success_count = 0
    /\ error_count = 0
    /\ errors = <<>>
    /\ calls = <<>>
    /\ ScanQuiet

GuiSpecInit == GuiInit /\ ProbeInit /\ FnQuiet /\ BatchQuiet /\ StoreQuiet /\ MetaQuiet /\ UrlQuiet /\ LinkQuiet /\ GuiQuiet

GuiNext ==
    \E t \in Threads :
        \/ ClickSearch(t)
        \/ ClickCheckLinks(t)
        \/ SearchRead(t)
        \/ ListChannels(t)
        \/ ListPage(t)
        \/ SearchBatch(t)
        \/ SearchTable(t)
        \/ LinkBatch(t)
        \/ LinkPublish(t)

\* The main loop taking Search and Check Links clicks while the threads it
\* started run.
GuiSpec == GuiSpecInit /\ [][GuiNext]_vars

\* C11: at every moment, for every sequence of Search and Check Links clicks,
\* at most one background worker (pattern scan or link check) is active.
C11_OneWorkerAtATime ==
    Cardinality({t \in Threads : Active(t)}) <= 1


\* The page items that have arrived for thread t among the first n answers,
\* in arrival order.
RECURSIVE Arrived(_, _)
Arrived(t, n) ==
    IF n = 0 THEN <<>>
    ELSE LET e == scan_log[n]
         IN  IF e.t = t /\ e.op = "page" /\ e.res = "ok"
             THEN Arrived(t, n - 1) \o e.items
             ELSE Arrived(t, n - 1)

PagesOf(t) ==
    {k \in DOMAIN scan_log :
        scan_log[k].t = t /\ scan_log[k].op = "page" /\ scan_log[k].res = "ok"}

\* Thread t's listing request has just failed.
ListingFailed(t) ==
    /\ tpc[t] = "failed"
    /\ \E k \in DOMAIN scan_log :
          /\ scan_log[k].t = t
          /\ \A j \in DOMAIN scan_log : scan_log[j].t = t => j <= k
          /\ scan_log[k].op \in {"channels", "page"}

\* C14: get_all_videos asks for pages until the first one without a next-page
\* token and returns all page items in arrival order; while the listing runs,
\* and when a page request fails (which ends the scan), self.videos and the
\* candidate list stay what they were before the scan started.
C14_ListingAllOrNothing ==
    /\ [](\A t \in Threads :
            /\ tpc[t] = "page" =>
                  /\ tlist[t] = Arrived(t, Len(scan_log))
                  /\ \A k \in PagesOf(t) : scan_log[k].token
            /\ tpc[t] \in {"batch", "table", "finished"} =>
                  /\ videos = Arrived(t, Len(scan_log))
                  /\ \A k \in PagesOf(t) :
                        scan_log[k].token <=> (\E j \in PagesOf(t) : j > k))
    /\ [][\A t \in Threads :
            /\ (tpc[t] \in {"none", "read", "channels", "page"}
                /\ tpc'[t] \in {"read", "channels", "page", "returned_blank", "failed"}) =>
                  /\ videos' = videos
                  /\ videos_needing_update' = videos_needing_update
            /\ (scan_log' # scan_log /\ Last(scan_log').t = t
                /\ Last(scan_log').op \in {"channels", "page"}
                /\ Last(scan_log').res = "raise") =>
                  tpc'[t] = "failed"]_vars

\* The second page request failed after the first page had arrived, and the
\* listing and the candidates of the earlier scan are still in place.
C14_Witness ==
    /\ ListingFailed("t1")
    /\ Len(tlist["t1"]) = 1
    /\ PagesOf("t1") # {}
    /\ videos = ChannelRefs
    /\ Len(videos_needing_update) = Len(Channel)

\* p occurs in s as a run of consecutive characters.
Substring(p, s) == \E a \in 0..Len(s), b \in 0..Len(s) : SubSeq(s, a + 1, b) = p

\* The ids the remote returned details for, to thread t.
PresentFor(t) ==
    UNION {scan_log[k].present : k \in {j \in DOMAIN scan_log :
                                           scan_log[j].t = t /\ scan_log[j].op = "details"}}

\* C16: a pattern scan that ends without a remote error leaves as candidates
\* exactly the listed videos the remote returned details for and whose
\* description contains the pattern as a literal substring, in listing order,
\* none of them selected; a listed id missing from the detail response is
\* skipped.
C16_ScanYieldsMatches ==
    \A t \in Threads :
       (tkind[t] = "search" /\ tpc[t] = "finished") =>
          LET hits == SelectSeq(videos,
                                LAMBDA v : /\ v.id \in PresentFor(t)
                                           /\ Substring(find_pattern, remote[v.id]))
          IN  /\ Len(videos_needing_update) = Len(hits)
              /\ \A k \in 1..Len(hits) :
                    /\ videos_needing_update[k].id = hits[k].id
                    /\ videos_needing_update[k].title = hits[k].title
                    /\ videos_needing_update[k].details.description = remote[hits[k].id]
                    /\ ~videos_needing_update[k].selected

\* A scan has finished with one candidate while the other listed video, whose
\* description holds the pattern too, was missing from the detail response.
C16_Witness ==
    /\ tpc["t1"] = "finished"
    /\ Len(videos) = 2
    /\ Len(videos_needing_update) = 1
    /\ \E id \in Ids \ PresentFor("t1") : Substring(find_pattern, remote[id])


\* C23: for every description and replacement an empty pattern never matches
\* and never edits: the matcher reports no match and no issue, and the
\* replacer returns the description unchanged with was_modified = false.
C23_EmptyPatternInert ==
    fn_in # None =>
       (fn_in.pattern = <<>> =>
          /\ fn_out.matched # None =>
                /\ ~fn_out.matched.needs_update
                /\ fn_out.matched.issues = <<>>
          /\ fn_out.processed # None =>
                /\ fn_out.processed.new_description = fn_in.text
                /\ ~fn_out.processed.was_modified)

\* Both functions were called with an empty pattern on a non-empty
\* description and a non-empty replacement.
C23_Witness ==
    /\ BothCalled
    /\ fn_in.pattern = <<>>
    /\ fn_in.text # <<>>
    /\ fn_in.replacement # <<>>
    /\ fn_out.processed.new_description = fn_in.text


SavedOk(k) == {b \in ByLoop(k, "save_backup") : calls[b].res = "ok"}

\* C26: once the loop has processed a selected item whose fetch returned
\* details and whose backup write succeeded, the backup record of that id
\* holds the description fetched in this run, whether or not an update call
\* was made for the item; the write replaces whatever record was there.
C26_BackupHoldsFetched ==
    /\ [](\A k \in 1..Len(selected) :
            (Finished(k) /\ Fetched(k) # {} /\ SavedOk(k) # {}) =>
               /\ backups[selected[k].id] # None
               /\ \A g \in Fetched(k) :
                     backups[selected[k].id].description = calls[g].desc)
    /\ [][(upc = "backup" /\ calls' # calls /\ Last(calls').res = "ok") =>
            /\ backups'[video.id] # None
            /\ backups'[video.id].description = video_details.description]_vars

\* An item was processed with no update call, and the record an earlier run
\* had stored for it has given way to the text fetched in this run.
C26_Witness ==
    /\ upc = "finish"
    /\ \E k \in 1..Len(selected) :
          /\ selected[k].id = Channel[1]
          /\ SavedOk(k) # {}
          /\ Updates(k) = {}
          /\ \E g \in Fetched(k) :
                /\ calls[g].desc # EarlierBackup(Channel[1]).description
                /\ backups[Channel[1]].description = calls[g].desc


\* The items processed so far that left no entry in `errors`.
Succeeded == {k \in 1..Len(selected) : Finished(k) /\ EntriesOf(k) = {}}

\* C27: when the batch is finished every selected item has produced exactly
\* one outcome: success_count + error_count is the number of selected items,
\* `errors` holds error_count messages, one for each failed item and none for
\* a successful one, whatever happened to each item; and while the loop runs
\* the same holds of the items processed so far.
C27_OneOutcomePerItem ==
    /\ upc \in {"finish", "done"} =>
          /\ success_count + error_count = Len(selected)
          /\ Len(errors) = error_count
    /\ upc \in {"fetch", "backup", "update", "restore", "restore_update",
                "finish", "done"} =>
          /\ success_count + error_count = i - 1
          /\ Len(errors) = error_count
          /\ \A k \in 1..Len(selected) : Cardinality(EntriesOf(k)) <= 1
          /\ Cardinality(Succeeded) = success_count

\* A batch of two has finished with one success and one error, the error
\* coming from an exception raised inside restore_from_backup.
C27_Witness ==
    /\ upc = "finish"
    /\ Len(selected) = 2
    /\ success_count = 1
    /\ error_count = 1
    /\ \E k \in 1..2 :
          \E n \in ByRestore(k, "get_video_details") : calls[n].res = "HttpError"


\* ------------------------------------------- the body of an update request

\* The snippet fields of a video resource besides its description.  A video
\* without tags has no "tags" key.
NoTags == <<"#">>
Tags == {NoTags, <<"t1">>, <<"t1", "t2">>}
Categories == {"22", "27"}

Resource(id, title, description, tags, categoryId) ==
    [id |-> id, title |-> title, description |-> description, tags |-> tags,
     categoryId |-> categoryId]

snippet_body_without_tags(video_id, details, new_description) ==
    [id |-> video_id, title |-> details.title, description |-> new_description,
     tags |-> <<>>, categoryId |-> details.categoryId]

\* The body update_video_description sends: title, tags and categoryId from
\* video_details["snippet"], `snippet.get("tags", [])` for a missing key.
snippet_body(video_id, details, new_description) ==
    [id |-> video_id, title |-> details.title, description |-> new_description,
     tags |-> IF details.tags = NoTags THEN <<>> ELSE details.tags,
     categoryId |-> details.categoryId]

\* videos().update(part="snippet", body=...) carried out: the snippet of the
\* resource becomes the snippet of the body; an empty tag list leaves no tags.
videos_update(resource, body) ==
    [resource EXCEPT !.title = body.title,
                     !.description = body.description,
                     !.tags = IF body.tags = <<>> THEN NoTags ELSE body.tags,
                     !.categoryId = body.categoryId]

\* Any video resource.
MetaInit ==
    /\ m_pc = "idle"
    /\ m_video \in {Resource(Channel[1], title, description, tags, categoryId) :
                       title \in {Title(id) : id \in Ids},
                       description \in Descriptions,
                       tags \in Tags, categoryId \in Categories}
    /\ m_details = None
    /\ m_body = None

metaFrame == <<updateVars, probeVars, fnVars, batchVars, storeVars, scanVars,
               urlVars, linkVars, guiVars>>

\* get_video_details(video_id), as update_selected_videos and
\* restore_from_backup call it right before the update request.
MetaFetch ==
    /\ m_pc \in {"idle", "done"}
    /\ \/ /\ m_details' = m_video
          /\ m_pc' = "fetched"
       \/ \* no item in the response: the caller makes no update request
          /\ m_details' = None
          /\ m_pc' = "done"
    /\ m_body' = None
    /\ UNCHANGED <<m_video, metaFrame>>

\* update_video_description(video_id, video_details, text) with the snapshot
\* just fetched; text is new_desc in the loop, the backed-up description in
\* restore_from_backup.
MetaUpdate ==
    /\ m_pc = "fetched"
    /\ \E text \in Descriptions :
          LET body == snippet_body(m_details.id, m_details, text)
          IN  /\ m_body' = body
              /\ \/ m_video' = videos_update(m_video, body)
                 \/ \* the request raises, carried out or not
                    \E applied \in BOOLEAN :
                       m_video' = IF applied THEN videos_update(m_video, body)
                                  ELSE m_video
    /\ m_pc' = "done"
    /\ UNCHANGED <<m_details, metaFrame>>

MetaSpecInit == UpdateQuiet /\ ProbeInit /\ FnQuiet /\ BatchQuiet /\ StoreQuiet
                /\ ScanQuiet /\ MetaInit /\ UrlQuiet /\ LinkQuiet /\ GuiQuiet

MetaNext ==
    \/ MetaFetch
    \/ MetaUpdate

\* One fetch of the live details and the update request built from it.
MetaSpec == MetaSpecInit /\ [][MetaNext]_vars

\* C29: a description update or a restore changes only the description: the
\* request carries the title, tags and categoryId of the snapshot fetched
\* right before it, and after the call these fields of the resource are what
\* they were in that snapshot.
C29_OnlyDescriptionChanges ==
    (m_pc = "done" /\ m_body # None) =>
       /\ m_body.title = m_details.title
       /\ m_body.categoryId = m_details.categoryId
       /\ m_body.tags = (IF m_details.tags = NoTags THEN <<>> ELSE m_details.tags)
       /\ m_video.id = m_details.id
       /\ m_video.title = m_details.title
       /\ m_video.tags = m_details.tags
       /\ m_video.categoryId = m_details.categoryId
       /\ m_video.description \in {m_details.description, m_body.description}

\* An update request went through for a video with two tags and gave it a new
\* description.
C29_Witness ==
    /\ m_pc = "done"
    /\ m_body # None
    /\ m_details.tags = <<"t1", "t2">>
    /\ m_video.description # m_details.description
    /\ m_video.description = m_body.description


\* ------------------------------------------------------------- extract_urls

\* Characters the first class of url_pattern excludes: [^\s<>"')\]]
UrlStops == {" ", "<", ">", "\"", "'", ")", "]"}
\* Characters the last class excludes besides those: .,;:!?
UrlPunctuation == {".", ",", ";", ":", "!", "?"}

InRun(c) == c \notin UrlStops
CanEnd(c) == c \notin UrlStops \cup UrlPunctuation

Https == <<"h", "t", "t", "p", "s", ":", "/", "/">>
Http == <<"h", "t", "t", "p", ":", "/", "/">>

StartsAt(text, k, word) ==
    /\ k + Len(word) - 1 <= Len(text)
    /\ SubSeq(text, k, k + Len(word) - 1) = word

\* The length of `https?://` matched at position k, or 0.
SchemeAt(text, k) ==
    IF StartsAt(text, k, Https) THEN Len(Https)
    ELSE IF StartsAt(text, k, Http) THEN Len(Http)
    ELSE 0

\* The last position of the longest run of first-class characters from k on,
\* or k - 1 when there is none.
RECURSIVE RunEnd(_, _)
RunEnd(text, k) ==
    IF k <= Len(text) /\ InRun(text[k]) THEN RunEnd(text, k + 1) ELSE k - 1

\* Where the match of url_pattern starting at k ends, or 0 when there is no
\* match at k: the scheme, then one or more first-class characters, greedy,
\* then one character of the last class.
MatchEnd(text, k) ==
    LET n == SchemeAt(text, k)
        ends == {e \in (k + n + 1)..RunEnd(text, k + n) : CanEnd(text[e])}
    IN  IF n = 0 \/ ends = {} THEN 0
        ELSE CHOOSE e \in ends : \A f \in ends : f <= e

\* re.findall(url_pattern, text) from position k on: matches left to right,
\* none overlapping another.
RECURSIVE FindAll(_, _)
FindAll(text, k) ==
    IF k > Len(text) THEN <<>>
    ELSE IF MatchEnd(text, k) = 0 THEN FindAll(text, k + 1)
    ELSE <<SubSeq(text, k, MatchEnd(text, k))>> \o FindAll(text, MatchEnd(text, k) + 1)

extract_urls(text) == FindAll(text, 1)

\* The pieces texts are put together from.
Pieces == {Https, Http, <<"a">>, <<",">>, <<" ">>, <<")">>}

RECURSIVE TextsOf(_)
TextsOf(n) ==
    IF n = 0 THEN {<<>>}
    ELSE TextsOf(n - 1) \cup {t \o p : t \in TextsOf(n - 1), p \in Pieces}

ExampleText ==
    <<"s", "e", "e", " ", "h", "t", "t", "p", "s", ":", "/", "/", "a", ".", "c", "o", "m", "/", "x", ",", " ", "a", "n", "d", " ", "h", "t", "t", "p", "s", ":", "/", "/", "b", ".", "c", "o", "m", "/", "y", ".">>

UrlInit ==
    /\ u_text \in TextsOf(MaxPieces) \cup {ExampleText}
    /\ u_out = None

\* urls = extract_urls(description)
ExtractUrls ==
    /\ u_out = None
    /\ u_out' = [urls |-> extract_urls(u_text)]
    /\ UNCHANGED <<u_text, updateVars, probeVars, fnVars, batchVars, storeVars,
                   scanVars, metaVars, linkVars, guiVars>>

UrlSpecInit == UpdateQuiet /\ ProbeInit /\ FnQuiet /\ BatchQuiet /\ StoreQuiet
               /\ ScanQuiet /\ MetaQuiet /\ UrlInit /\ LinkQuiet /\ GuiQuiet

UrlNext == ExtractUrls

\* extract_urls applied to a text.
UrlSpec == UrlSpecInit /\ [][UrlNext]_vars

\* The URL tokens of a text from position k on: at a scheme prefix, the
\* longest run of characters up to white space, a quote or a closing bracket,
\* without the sentence punctuation at its end; a scheme with nothing left
\* after it is no token.
RECURSIVE UrlTokens(_, _)
UrlTokens(text, k) ==
    IF k > Len(text) THEN <<>>
    ELSE LET n == SchemeAt(text, k)
             last == RunEnd(text, k + n)
             kept == {e \in (k + n)..last :
                         \A f \in (e + 1)..last : text[f] \in UrlPunctuation}
             stop == CHOOSE e \in kept \cup {k + n - 1} :
                         /\ e >= k + n => text[e] \notin UrlPunctuation
                         /\ \A f \in kept : f > e => text[f] \in UrlPunctuation
         IN  IF n = 0 \/ stop < k + n THEN UrlTokens(text, k + 1)
             ELSE <<SubSeq(text, k, stop)>> \o UrlTokens(text, stop + 1)

\* C24: extract_urls returns the URL tokens of the text in order of
\* appearance, duplicates kept, each without the sentence punctuation, closing
\* bracket or quote that follows it; on the text
\* "see https://a.com/x, and https://b.com/y." it returns exactly
\* "https://a.com/x" and "https://b.com/y".
C24_UrlTokensInOrder ==
    u_out # None =>
       /\ u_out.urls = UrlTokens(u_text, 1)
       /\ u_text = ExampleText =>
             u_out.urls =
                <<<<"h", "t", "t", "p", "s", ":", "/", "/", "a", ".", "c", "o", "m", "/", "x">>,
                  <<"h", "t", "t", "p", "s", ":", "/", "/", "b", ".", "c", "o", "m", "/", "y">>>>


\* ------------------------------------ the link loop of check_broken_links

IsBrokenHttpOnly(status_code) == status_code >= 400

\* `if status_code is None or status_code >= 400`
IsBroken(status_code) == status_code = StatusNone \/ status_code >= 400

\* The links of one description, duplicates included.
LinkInit ==
    /\ l_urls \in UNION {[1..n -> Urls] : n \in 0..MaxCalls}
    /\ l_all = <<>>
    /\ l_broken = <<>>
    /\ l_counts = [broken_count |-> 0, cached_links |-> 0]

\* The loop is between two links: nothing is in flight and what the last
\* call returned has been recorded.
BetweenLinks == ppc["w1"] = "idle" /\ Len(returns) = Len(l_all)

\* `status_code, error, from_cache = check_url_status(url)` for the next url.
LinkCall ==
    /\ BetweenLinks
    /\ Len(l_all) < Len(l_urls)
    /\ Call("w1", l_urls[Len(l_all) + 1], TRUE)

\* The rest of the loop body, with what the call returned.
LinkRecord ==
    /\ ppc["w1"] = "idle"
    /\ Len(returns) = Len(l_all) + 1
    /\ LET ret == Last(returns)
           link == [url |-> ret.url, status_code |-> ret.status, error |-> ret.error]
       IN  /\ l_all' = Append(l_all, link)
           /\ l_broken' = IF IsBroken(ret.status) THEN Append(l_broken, link)
                          ELSE l_broken
           /\ l_counts' = [broken_count |-> l_counts.broken_count
                                            + (IF IsBroken(ret.status) THEN 1 ELSE 0),
                           cached_links |-> l_counts.cached_links
                                            + (IF ret.from_cache THEN 1 ELSE 0)]
    /\ UNCHANGED <<l_urls, updateVars, probeVars, fnVars, batchVars, storeVars,
                   scanVars, metaVars, urlVars, guiVars>>

LinkSpecInit == UpdateQuiet /\ ProbeInit /\ FnQuiet /\ BatchQuiet /\ StoreQuiet
                /\ ScanQuiet /\ MetaQuiet /\ UrlQuiet /\ LinkInit /\ GuiQuiet

LinkNext ==
    \/ LinkCall
    \/ HeadRequest("w1")
    \/ GetRequest("w1")
    \/ CacheStore("w1")
    \/ LinkRecord

\* One worker checking the links of one description in order.
LinkSpec == LinkSpecInit /\ [][LinkNext]_vars

\* The last request of call n of worker t.
LastRequest(t, n) ==
    CHOOSE k \in RequestsOf(t, n) : \A j \in RequestsOf(t, n) : j <= k

\* C21: check_url_status never raises: a call in progress always has a next
\* step and ends by returning; a network failure of the HEAD request or of
\* the GET retry gives status None with the error's message, an HTTP failure
\* gives the numeric status with its reason phrase; and the link loop records
\* every result, the ones with status None or >= 400 as broken links, and
\* goes on with the next link until all links are checked.
C21_FailuresBecomeBrokenLinks ==
    /\ ppc["w1"] # "idle" => ENABLED (HeadRequest("w1") \/ GetRequest("w1") \/ CacheStore("w1"))
    /\ \A r \in DOMAIN returns :
          ~returns[r].from_cache =>
             LET a == probes[LastRequest(returns[r].t, returns[r].n)].answer
             IN  /\ a.kind \in {"URLError", "Exception"} =>
                       /\ returns[r].status = StatusNone
                       /\ returns[r].error = a.reason
                       /\ returns[r].error # NoError
                 /\ a.kind = "HTTPError" =>
                       /\ returns[r].status = a.code
                       /\ returns[r].error = a.reason
                 /\ a.kind = "response" =>
                       /\ returns[r].status = a.code
                       /\ returns[r].error = NoError
    /\ \A k \in DOMAIN l_all :
          /\ l_all[k].url = l_urls[k]
          /\ l_all[k].status_code = returns[k].status
          /\ l_all[k].error = returns[k].error
    /\ l_broken = SelectSeq(l_all, LAMBDA link : link.status_code = StatusNone
                                                 \/ link.status_code >= 400)
    /\ l_counts.broken_count = Len(l_broken)
    /\ Len(l_all) < Len(l_urls) => ENABLED LinkNext

\* All three links were checked although the first failed on the network and
\* the second was answered 404; the third, the first url again, came from the
\* cache; all three are recorded as broken.
C21_Witness ==
    /\ Len(l_urls) = 3
    /\ Len(l_all) = 3
    /\ l_all[1].status_code = StatusNone
    /\ l_all[2].status_code = 404
    /\ l_all[3].url = l_all[1].url
    /\ Len(l_broken) = 3
    /\ l_counts.cached_links = 1

\* ---------------------------------------------------------------------------
\* Selection across a scan
\* ---------------------------------------------------------------------------

\* The checkbox of the candidate that stands for resource id in a candidate
\* list (an id stands in a list at most once: a scan visits each listed
\* resource once).
IsCandidate(list, id) == \E k \in DOMAIN list : list[k].id = id

SelectedIn(list, id) == \E k \in DOMAIN list : list[k].id = id /\ list[k].selected

\* A step keeps the selection when every resource that is a candidate before
\* and after it has the same checkbox.
SelectionKept ==
    \A id \in Ids :
        IsCandidate(videos_needing_update, id) /\ IsCandidate(videos_needing_update', id)
            => (SelectedIn(videos_needing_update', id) <=> SelectedIn(videos_needing_update, id))

\* C22: no scan changes the selection state of a candidate, the re-scan that
\* update_selected_videos runs at its end included: in every step of the Update
\* handler a resource that stays a candidate keeps its checkbox.
C22_ScansKeepSelection == [][SelectionKept]_vars

\* ---------------------------------------------------------------------------
\* The main loop of run()
\* ---------------------------------------------------------------------------

\* What no step of the loop itself touches.
loopFrame == <<scanFrame, find_pattern, replace_with, videos, tkind, tpc, tlist,
               tstart, ttotal, tfound, scan_log>>

\* `event, values = self.window.read(timeout=100)` returns, and
\* `if self._link_check_result is not None` is tested.
LoopRead ==
    /\ loop_pc = "read"
    /\ loop_pc' = IF link_check_result # None THEN "take" ELSE "dispatch"
    /\ UNCHANGED <<videos_needing_update, link_check_result, table, poll_result,
                   shown, loopFrame>>

\* `result = self._link_check_result`
LoopTake ==
    /\ loop_pc = "take"
    /\ poll_result' = link_check_result
    /\ loop_pc' = "clear"
    /\ UNCHANGED <<videos_needing_update, link_check_result, table, shown, loopFrame>>

\* `self._link_check_result = None`, then the popup built from `result`; the
\* subscripts `result['videos']` raise when `result` is None, and run() ends.
LoopClear ==
    /\ loop_pc = "clear"
    /\ link_check_result' = None
    /\ IF poll_result = None
       THEN /\ loop_pc' = "crashed"
            /\ UNCHANGED shown
       ELSE /\ shown' = Append(shown, poll_result)
            /\ loop_pc' = "dispatch"
    /\ UNCHANGED <<videos_needing_update, table, poll_result, loopFrame>>

\* `elif event == "-SEARCH-"` in its place in the loop.
DispatchSearch(t) ==
    /\ loop_pc = "dispatch"
    /\ StartSearch(t)
    /\ loop_pc' = "read"
    /\ UNCHANGED <<poll_result, shown>>

\* `elif event == "-CHECK_LINKS-"` in its place in the loop.
DispatchCheckLinks(t) ==
    /\ loop_pc = "dispatch"
    /\ StartCheckLinks(t)
    /\ loop_pc' = "read"
    /\ UNCHANGED <<poll_result, shown>>

\* `0 <= row_index < len(self.videos_needing_update)`
InList(row_index, list) == 0 <= row_index /\ row_index < Len(list)

\* toggle_video_selection: the candidate list after the call.
toggled(list, row_index) ==
    IF InList(row_index, list)
    THEN [list EXCEPT ![row_index + 1].selected = ~@]
    ELSE list

\* select_all_videos: the candidate list after the call.
all_selected(list, select) ==
    [k \in 1..Len(list) |-> [list[k] EXCEPT !.selected = select]]

\* A click on the checkbox column of a row the table shows:
\* toggle_video_selection(row), which redraws the table when the row is in the
\* list, then show_preview(row).
DispatchTableClick ==
    /\ loop_pc = "dispatch"
    /\ \E row \in 0..(Len(table) - 1) :
          /\ videos_needing_update' = toggled(videos_needing_update, row)
          /\ table' = IF InList(row, videos_needing_update)
                      THEN table_data(videos_needing_update')
                      ELSE table
    /\ loop_pc' = "read"
    /\ UNCHANGED <<link_check_result, poll_result, shown, loopFrame>>

\* `elif event == "-SELECT_ALL-": self.select_all_videos(values["-SELECT_ALL-"])`
DispatchSelectAll ==
    /\ loop_pc = "dispatch"
    /\ \E select \in BOOLEAN :
          videos_needing_update' = all_selected(videos_needing_update, select)
    /\ table' = table_data(videos_needing_update')
    /\ loop_pc' = "read"
    /\ UNCHANGED <<link_check_result, poll_result, shown, loopFrame>>

\* The read timed out, or the event is none of the above.
DispatchOther ==
    /\ loop_pc = "dispatch"
    /\ loop_pc' = "read"
    /\ UNCHANGED <<videos_needing_update, link_check_result, table, poll_result,
                   shown, loopFrame>>

TableNext ==
    \/ LoopRead
    \/ DispatchSearch("t1")
    \/ DispatchTableClick
    \/ DispatchSelectAll
    \/ DispatchOther
    \/ SearchRead("t1")
    \/ ListChannels("t1")
    \/ ListPage("t1")
    \/ SearchBatch("t1")
    \/ SearchTable("t1")

\* The loop handling table clicks and one Search click while the scan runs.
TableSpec == ScanSpecInit /\ [][TableNext]_vars

\* Row k of the table and entry k of the candidate list are the same resource
\* (a title stands for one resource).
SameRows ==
    /\ Len(table) = Len(videos_needing_update)
    /\ \A k \in 1..Len(table) : table[k][2] = videos_needing_update[k].title

\* C25: whenever the loop can handle a table click or an Update event, with a
\* scan in flight or aborted included, row i of the table is the resource of
\* videos_needing_update[i].
C25_RowsAreCandidates == loop_pc = "dispatch" => SameRows


SlotNext ==
    \/ LoopRead
    \/ LoopTake
    \/ LoopClear
    \/ DispatchOther
    \/ \E t \in Threads :
          \/ DispatchCheckLinks(t)
          \/ ListChannels(t)
          \/ ListPage(t)
          \/ LinkBatch(t)
          \/ LinkPublish(t)

\* The loop polling the slot while the link checks it started run.
SlotSpec == GuiSpecInit /\ [][SlotNext]_vars

\* The result a link-check worker stores in the slot (one per worker).
Published(t) == [by |-> t]

\* The workers that have stored a result in the slot.
Publishers == {t \in Threads : tkind[t] = "links" /\ tpc[t] = "finished" /\ tfound[t]}

\* How often the popup has shown a result.
TimesShown(r) == Cardinality({k \in DOMAIN shown : shown[k] = r})

\* A result waits to be shown: it is in the slot, or the loop has read it into
\* `result` and is about to clear the slot and open the popup.
Waiting(r) == link_check_result = r \/ (loop_pc = "clear" /\ poll_result = r)

\* C28: every result a link-check worker publishes in _link_check_result is
\* consumed by the loop exactly once: at any moment a published result is
\* either still waiting to be shown or has been shown once, and never twice.
C28_ShownExactlyOnce ==
    \A t \in Publishers :
        /\ TimesShown(Published(t)) <= 1
        /\ TimesShown(Published(t)) = 1 \/ Waiting(Published(t))

====
